---- MODULE Spec2Model ----
(***************************************************************************)
(* A state-machine model of the realtime chat socket server                *)
(* (backend/sockets/chat.js) and of the cache client it uses               *)
(* (backend/utils/redisClient.js).                                         *)
(*                                                                         *)
(* Sessions (sockets) open through the authentication middleware, are      *)
(* registered in connectedUsers, send chat messages through the rate       *)
(* limiter, load history, mark messages read, react, and trigger AI        *)
(* streaming jobs.  Every await of the code is a step boundary: what runs  *)
(* between two awaits is one atomic action.                                *)
(***************************************************************************)
EXTENDS Integers, Sequences, FiniteSets, TLC

(***************************************************************************)
(* Bounds of the model                                                     *)
(***************************************************************************)
MaxSockets == 3

Sockets == 1..MaxSockets
NoSock == 0
Users == {"u1", "u2"}
NoUser == "nouser"
Rooms == {"r1", "r2"}
NoRoom == "noroom"

(***************************************************************************)
(* Program constants                                                       *)
(***************************************************************************)
DUPLICATE_LOGIN_TIMEOUT == 8000
CLEANUP_INTERVAL == 180000
RATE_LIMIT_WINDOW == 60000
RATE_LIMIT_MAX == 40
BATCH_SIZE == 25
connectedUsersMax == 2000
userRoomsMax == 2000
streamingSessionsMax == 500
messageQueuesMax == 1000
rateLimitCacheMax == 2000

VARIABLES
  now,               \* Date.now(), in ms since the model's epoch
  sockSt,            \* socket -> "new" | "dupwait" | "auth" | "connected" | "closed" | "rejected"
  sockUser,          \* socket -> decoded.user.id / socket.user.id
  sockRooms,         \* socket -> socket.io rooms the socket has joined
  recv,              \* socket -> sequence of events emitted to it
  closeInfo,         \* socket -> [reason, at] of its disconnect
  connectedUsers,    \* LimitedMap userId -> socket id
  userRooms,         \* LimitedMap userId -> room id
  dupTimers,         \* pending handleDuplicateLogin promises (timer + disconnect listener)
  dupLog,            \* history: every duplicate login found by the middleware
  messageQueues,     \* LimitedMap of history loads in progress
  rateLimitCache,    \* LimitedMap (userId, minute) -> [count, timestamp]
  streamingSessions, \* LimitedMap sessionId -> streaming session
  leaveJobs,         \* pending "disconnected" system messages (Promise.all of save and $pull)
  last,              \* history: the handler that ran last
  nextCleanup,       \* when the memoryCleanup interval runs next
  messageLoadRetries,\* LimitedMap of retry records of history loads
  redisRate,         \* the rate_limit:* counters of the Redis server
  useMock,           \* redisClient.useMock: the client has switched to MockRedisClient
  chatReqs,          \* chatMessage handlers suspended at an await
  nextReq,           \* number of chatMessage events received so far
  messages,          \* the Message collection, in insertion order
  passed,            \* history: (user, window) -> sends that passed checkRateLimit
  loads,             \* loadMessages calls suspended at an await
  nextLoad,          \* number of loadMessages calls so far
  histCache,         \* the messages:* entries of the Redis server
  readOps,           \* read-marking writes the database has not finished
  nextOp,            \* number of read-marking writes issued so far
  reactReqs,         \* messageReaction handlers suspended at an await
  reactLog,          \* history: the messageReaction events handled to the end
  aiJobs,            \* aiService.generateResponse calls in progress
  nextJob,           \* number of generateResponse calls so far
  roomLog,           \* history: room -> events emitted to the room by io.to(room)
  lm,                \* the entries of a LimitedMap
  lmMax,             \* its maxSize
  fetchReqs,         \* fetchPreviousMessages handlers suspended at an await
  nextFetch,         \* number of fetchPreviousMessages events received so far
  queueTimers,       \* pending setTimeout(() => messageQueues.delete(queueKey), LOAD_DELAY)
  fetchLog,          \* history: per fetchPreviousMessages event, its attempts and emits
  accessCache,       \* the room_access:* entries of the Redis server
  participants,      \* Room.participants of every room
  userCache,         \* the user:* entries of the cache
  joinReqs,          \* joinRoom handlers suspended at an await
  nextJoin,          \* number of joinRoom events received so far
  joinSaves,         \* joinMessage.save() calls the database has not finished
  queues,            \* messageQueue.queues: room -> queued messages, oldest first
  processing,        \* messageQueue.processing: rooms with a processBatch in progress
  maxQueueSize,      \* messageQueue.maxQueueSize
  batchSize,         \* messageQueue.batchSize
  batches,           \* saveBatchMessages calls the database has not finished
  nextMsg            \* number of messages enqueued so far

rateVars == <<redisRate, useMock, chatReqs, nextReq, passed>>

\* what the session handlers (open, disconnect, timers) never touch
histVars == <<loads, nextLoad, histCache>>

readVars == <<readOps, nextOp>>

reactVars == <<reactReqs, reactLog>>

aiVars == <<aiJobs, nextJob>>

\* a LimitedMap on its own
mapVars == <<lm, lmMax>>

\* the fetchPreviousMessages handlers
fetchVars == <<fetchReqs, nextFetch, queueTimers, fetchLog>>

\* room membership, its cache and the cache of user records
roomVars == <<accessCache, participants, userCache>>

\* the joinRoom handlers
joinVars == <<joinReqs, nextJoin, joinSaves>>

\* the in-memory message queue of the cluster service
clusterVars == <<queues, processing, maxQueueSize, batchSize, batches, nextMsg>>

extVars == <<mapVars, fetchVars, roomVars, joinVars, clusterVars>>

restVars == <<nextCleanup, messageLoadRetries, rateVars, messages, histVars, readVars,
              reactVars, aiVars, roomLog, extVars>>

vars == <<now, sockSt, sockUser, sockRooms, recv, closeInfo, connectedUsers, userRooms,
          dupTimers, dupLog, messageQueues, rateLimitCache, streamingSessions, leaveJobs, last,
          restVars>>

(***************************************************************************)
(* LimitedMap: a JavaScript Map (insertion ordered) with a size cap.       *)
(* Modelled as the sequence of its entries in insertion order.             *)
(***************************************************************************)
LMHas(m, k) == \E i \in 1..Len(m) : m[i].k = k

LMIndex(m, k) == CHOOSE i \in 1..Len(m) : m[i].k = k

LMKeys(m) == {m[i].k : i \in 1..Len(m)}

LMDelete(m, k) == SelectSeq(m, LAMBDA e : e.k # k)

\* Map.prototype.set: an existing key keeps its position
MapSet(m, k, v) ==
  IF LMHas(m, k)
  THEN [i \in 1..Len(m) |-> IF m[i].k = k THEN [k |-> k, v |-> v] ELSE m[i]]
  ELSE Append(m, [k |-> k, v |-> v])

LMSet_NoEviction(m, max, k, v) == MapSet(m, k, v)

\* LimitedMap.set: at capacity the oldest key is deleted first, whatever k is
LMSet(m, max, k, v) ==
  MapSet(IF Len(m) >= max THEN Tail(m) ELSE m, k, v)

\* connectedUsers.get(userId), NoSock when undefined
Lookup(u) ==
  IF LMHas(connectedUsers, u) THEN connectedUsers[LMIndex(connectedUsers, u)].v ELSE NoSock

\* userRooms.get(userId), NoRoom when undefined
CurrentRoom(u) ==
  IF LMHas(userRooms, u) THEN userRooms[LMIndex(userRooms, u)].v ELSE NoRoom

EmitTo_AnyState(rv, s, e) == [rv EXCEPT ![s] = Append(@, e)]

\* socket.emit: a packet for a socket that is not connected is discarded
EmitTo(rv, s, e) == IF sockSt[s] = "connected" THEN [rv EXCEPT ![s] = Append(@, e)] ELSE rv

Emit(s, e) == EmitTo(recv, s, e)

EmitRoomTo_Twice(rv, r, e) ==
  [s \in Sockets |-> IF r \in sockRooms[s] THEN rv[s] \o <<e, e>> ELSE rv[s]]

\* io.to(room).emit: every socket that has joined the socket.io room
EmitRoomTo(rv, r, e) ==
  [s \in Sockets |-> IF r \in sockRooms[s] THEN Append(rv[s], e) ELSE rv[s]]

\* next(new Error(message)): the handshake is refused
Reject(s, message) ==
  [recv EXCEPT ![s] = Append(@, [ev |-> "connect_error", message |-> message])]

LimitedMapDefaultMax == 1000

\* createMessageQueue: maxQueueSize and batchSize
MaxQueueSizeDefault == 1000
BatchSizeDefault == 10

\* no history load, read marking, reaction or AI job is in progress
InitWork ==
  /\ loads = {}
  /\ nextLoad = 0
  /\ histCache = <<>>
  /\ readOps = {}
  /\ nextOp = 0
  /\ reactReqs = {}
  /\ reactLog = <<>>
  /\ aiJobs = {}
  /\ nextJob = 0
  /\ roomLog = [r \in Rooms |-> <<>>]

\* no fetchPreviousMessages is in progress
InitFetch ==
  /\ fetchReqs = {}
  /\ nextFetch = 0
  /\ queueTimers = {}
  /\ fetchLog = <<>>
  /\ accessCache = <<>>
  /\ userCache = <<>>
  /\ joinReqs = {}
  /\ nextJoin = 0
  /\ joinSaves = {}
  /\ queues = [r \in Rooms |-> <<>>]
  /\ processing = {}
  /\ batches = {}
  /\ nextMsg = 0

\* the users whose current room is r: each has joined it
Joined(r) == {userRooms[i].k : i \in {j \in 1..Len(userRooms) : userRooms[j].v = r}}

InitIdle ==
  /\ InitWork
  /\ InitFetch
  /\ participants = [r \in Rooms |-> Joined(r)]
  /\ lm = <<>>
  /\ lmMax = LimitedMapDefaultMax
  /\ maxQueueSize = MaxQueueSizeDefault
  /\ batchSize = BatchSizeDefault

\* the server after construction, before any socket connects
InitServer ==
  /\ now = 0
  /\ sockSt = [s \in Sockets |-> "new"]
  /\ sockUser = [s \in Sockets |-> NoUser]
  /\ sockRooms = [s \in Sockets |-> {}]
  /\ recv = [s \in Sockets |-> <<>>]
  /\ closeInfo = [s \in Sockets |-> [reason |-> "none", at |-> 0]]
  /\ connectedUsers = <<>>
  /\ userRooms = <<>>
  /\ dupTimers = {}
  /\ dupLog = {}
  /\ messageQueues = <<>>
  /\ rateLimitCache = <<>>
  /\ streamingSessions = <<>>
  /\ leaveJobs = {}
  /\ last = [a |-> "init", s |-> NoSock]
  /\ nextCleanup = CLEANUP_INTERVAL
  /\ messageLoadRetries = <<>>
  /\ redisRate = <<>>
  /\ useMock = FALSE
  /\ chatReqs = {}
  /\ nextReq = 0
  /\ messages = <<>>
  /\ passed = <<>>

Init == InitServer /\ InitIdle

(***************************************************************************)
(* Session open: the authentication middleware (io.use) and the connection *)
(* handler (io.on('connection')).                                          *)
(***************************************************************************)
Tokens == {"ok", "missing", "invalid", "expired"}

AuthError(tok) ==
  CASE tok = "missing" -> "Authentication error"
    [] tok = "invalid" -> "Invalid token"
    [] tok = "expired" -> "Token expired"
    [] OTHER -> "Authentication failed"

\* the middleware's duplicate login check
DuplicateFound(s, u) ==
  /\ Lookup(u) # NoSock
  /\ Lookup(u) # s
  /\ sockSt[Lookup(u)] = "connected"     \* io.sockets.sockets.get(existingSocketId)

\* handleDuplicateLogin without the warning to the existing socket
handleDuplicateLogin_NoWarning(ex, s) ==
  /\ recv' = recv
  /\ dupTimers' = dupTimers \cup
       {[existing |-> ex, newSock |-> s, deadline |-> now + DUPLICATE_LOGIN_TIMEOUT]}
  /\ dupLog' = dupLog \cup {[existing |-> ex, newSock |-> s, at |-> now]}

\* handleDuplicateLogin up to the returned promise: warn the existing socket,
\* start the timer, listen for the existing socket's disconnect
handleDuplicateLogin(ex, s) ==
  /\ recv' = Emit(ex, [ev |-> "duplicate_login"])
  /\ dupTimers' = dupTimers \cup
       {[existing |-> ex, newSock |-> s, deadline |-> now + DUPLICATE_LOGIN_TIMEOUT]}
  /\ dupLog' = dupLog \cup {[existing |-> ex, newSock |-> s, at |-> now]}

\* io.use up to its first await
AuthStart(s, u, tok) ==
  /\ sockSt[s] = "new"
  /\ \A t \in Sockets : t < s => sockSt[t] # "new"
  /\ last' = [a |-> "AuthStart", s |-> s]
  /\ IF tok # "ok"
     THEN /\ sockSt' = [sockSt EXCEPT ![s] = "rejected"]
          /\ recv' = Reject(s, AuthError(tok))
          /\ UNCHANGED <<sockUser, dupTimers, dupLog, extVars>>
     ELSE /\ sockUser' = [sockUser EXCEPT ![s] = u]
          /\ IF DuplicateFound(s, u)
             THEN /\ handleDuplicateLogin(Lookup(u), s)
                  /\ sockSt' = [sockSt EXCEPT ![s] = "dupwait"]
             ELSE /\ sockSt' = [sockSt EXCEPT ![s] = "auth"]
                  /\ UNCHANGED <<recv, dupTimers, dupLog>>
  /\ UNCHANGED <<now, sockRooms, closeInfo, connectedUsers, userRooms, messageQueues,
                 rateLimitCache, streamingSessions, leaveJobs, restVars>>

\* io.on('connection'): connectedUsers.set(socket.user.id, socket.id)
Register(s) == LMSet(connectedUsers, connectedUsersMax, sockUser[s], s)

\* io.use from the session validation to next(), then the connection handler
AuthOutcomes == {"ok", "invalid_session", "no_user"}

USER_CACHE_TTL == 300000

\* new MockRedisClient(): this.store = new Map()
MockStore == <<>>

\* the catch of RedisClient.get, setEx and incr: when the Redis server fails a
\* command the client is replaced by the mock, whose store is empty, and the
\* command is repeated on it
Fallback(cache, fails) == IF fails THEN MockStore ELSE cache

UserCached(u) == LMHas(userCache, u) /\ now < userCache[LMIndex(userCache, u)].v.expires

\* the command of the handler that the Redis server fails, if any
CacheFailures == {"none", "get", "setex"}

\* outcome says what the collaborators answer: validateSession is invalid
\* ("invalid_session"), User.findById finds nobody ("no_user"), or both succeed
AuthFinishWith(s, outcome, fails) ==
  LET u == sockUser[s]
      cachedUser == fails # "get" /\ UserCached(u)
      user == cachedUser \/ outcome = "ok"
      refused == outcome = "invalid_session" \/ ~user
      down == fails # "none"
  IN
  /\ sockSt[s] = "auth"
  /\ down => ~useMock
  /\ outcome = "invalid_session" => ~down
  /\ fails = "setex" => (~UserCached(u) /\ outcome = "ok")
  /\ last' = [a |-> "AuthFinish", s |-> s, outcome |-> outcome, fails |-> fails,
              cached |-> UserCached(u)]
  /\ IF refused
     THEN /\ sockSt' = [sockSt EXCEPT ![s] = "rejected"]
          /\ recv' = Reject(s, IF outcome = "invalid_session"
                                THEN "Invalid session" ELSE "User not found")
          /\ UNCHANGED connectedUsers
     ELSE /\ sockSt' = [sockSt EXCEPT ![s] = "connected"]
          /\ connectedUsers' = Register(s)
          /\ UNCHANGED recv
  /\ useMock' = (useMock \/ down)
  /\ histCache' = Fallback(histCache, down)
  /\ accessCache' = Fallback(accessCache, down)
  /\ userCache' = IF refused \/ cachedUser
                  THEN Fallback(userCache, down)
                  ELSE MapSet(Fallback(userCache, down), u,
                              [expires |-> now + USER_CACHE_TTL])
  /\ UNCHANGED <<now, sockUser, sockRooms, closeInfo, userRooms, dupTimers, dupLog,
                 messageQueues, rateLimitCache, streamingSessions, leaveJobs, nextCleanup,
                 messageLoadRetries, redisRate, chatReqs, nextReq, passed, messages, loads,
                 nextLoad, readVars, reactVars, aiVars, roomLog, mapVars, clusterVars, fetchVars,
                 participants, joinVars>>

\* the Redis server answers every command
AuthFinish(s, outcome) == AuthFinishWith(s, outcome, "none")

(***************************************************************************)
(* Disconnect: socket.io closes the socket and runs its 'disconnect'       *)
(* listeners synchronously: the connection handler's, then those           *)
(* handleDuplicateLogin added.                                             *)
(***************************************************************************)
\* if (connectedUsers.get(userId) === socket.id) connectedUsers.delete(userId)
UnregisterAlways(s) == LMDelete(connectedUsers, sockUser[s])

Unregister(s) ==
  IF Lookup(sockUser[s]) = s THEN LMDelete(connectedUsers, sockUser[s]) ELSE connectedUsers

CancelTimers_None(s) == dupTimers

\* existingSocket.on('disconnect', () => { clearTimeout(timeout); resolve() })
CancelTimers(s) == {t \in dupTimers : t.existing # s}

\* the leave message is skipped for these reasons
QuietReasons == {"client namespace disconnect", "duplicate_login"}

OnDisconnect(s, reason) ==
  LET u == sockUser[s]
      roomId == CurrentRoom(u)
      waiting == {t.newSock : t \in {x \in dupTimers : x.existing = s}}
  IN
  /\ sockSt' = [x \in Sockets |->
                  IF x = s THEN "closed"
                  ELSE IF x \in waiting THEN "auth"      \* resolve(): the middleware goes on
                  ELSE sockSt[x]]
  /\ sockRooms' = [sockRooms EXCEPT ![s] = {}]
  /\ closeInfo' = [closeInfo EXCEPT ![s] = [reason |-> reason, at |-> now]]
  /\ connectedUsers' = Unregister(s)
  /\ userRooms' = IF roomId # NoRoom THEN LMDelete(userRooms, u) ELSE userRooms
  /\ messageQueues' = SelectSeq(messageQueues, LAMBDA e : e.k.user # u)
  /\ streamingSessions' = SelectSeq(streamingSessions, LAMBDA e : e.v.userId # u)
  /\ rateLimitCache' = SelectSeq(rateLimitCache, LAMBDA e : e.k.user # u)
  /\ leaveJobs' = IF roomId # NoRoom /\ reason \notin QuietReasons
                  THEN leaveJobs \cup {[room |-> roomId, user |-> u, s |-> s, at |-> now]}
                  ELSE leaveJobs
  /\ dupTimers' = CancelTimers(s)

ClientReasons == {"transport close", "client namespace disconnect"}

\* the client leaves, or its transport closes
ClientDisconnect(s, reason) ==
  /\ sockSt[s] = "connected"
  /\ last' = [a |-> "ClientDisconnect", s |-> s, reason |-> reason,
              room |-> CurrentRoom(sockUser[s])]
  /\ OnDisconnect(s, reason)
  /\ UNCHANGED <<now, sockUser, recv, dupLog, restVars>>

\* the pre-emption timer of handleDuplicateLogin expires
DupTimerFire(t) ==
  /\ t \in dupTimers
  /\ now >= t.deadline
  /\ last' = [a |-> "DupTimerFire", s |-> t.existing]
  /\ recv' = Emit(t.existing, [ev |-> "session_ended", reason |-> "duplicate_login"])
  /\ OnDisconnect(t.existing, "forced server close")     \* existingSocket.disconnect(true)
  /\ UNCHANGED <<now, sockUser, dupLog, restVars>>

(***************************************************************************)
(* force_login                                                             *)
(***************************************************************************)
ForceAllowed_AnyUser(s, tokenUser) == tokenUser # NoUser

\* jwt.verify(token, jwtSecret) gives tokenUser, NoUser when it throws or the
\* payload has no user id; the token has to be one of the socket's own user
ForceAllowed(s, tokenUser) == tokenUser # NoUser /\ tokenUser = sockUser[s]

\* the whole handler: it has no await
ForceLogin(s, tokenUser) ==
  /\ sockSt[s] = "connected"
  /\ last' = [a |-> "ForceLogin", s |-> s, tokenUser |-> tokenUser]
  /\ IF ForceAllowed(s, tokenUser)
     THEN /\ recv' = Emit(s, [ev |-> "session_ended", reason |-> "force_logout"])
          /\ OnDisconnect(s, "forced server close")          \* socket.disconnect(true)
     ELSE /\ recv' = Emit(s, [ev |-> "error", message |-> "session end failed"])
          /\ UNCHANGED <<sockSt, sockRooms, closeInfo, connectedUsers, userRooms,
                         messageQueues, streamingSessions, rateLimitCache, leaveJobs,
                         dupTimers>>
  /\ UNCHANGED <<now, sockUser, dupLog, restVars>>

(***************************************************************************)
(* Time.  A timer that is due runs before time passes.                     *)
(***************************************************************************)
Min(S) == CHOOSE x \in S : \A y \in S : x <= y

Tick(d, maxNow) ==
  /\ now < maxNow
  /\ \A t \in dupTimers : t.deadline > now
  /\ now' = Min({now + d} \cup {t.deadline : t \in dupTimers})
  /\ last' = [a |-> "Tick", s |-> NoSock]
  /\ UNCHANGED <<sockSt, sockUser, sockRooms, recv, closeInfo, connectedUsers, userRooms,
                 dupTimers, dupLog, messageQueues, rateLimitCache, streamingSessions,
                 leaveJobs, restVars>>

(***************************************************************************)
(* Spec: session open, pre-emption and disconnect                          *)
(***************************************************************************)
SessTickMs == DUPLICATE_LOGIN_TIMEOUT
SessMaxTicks == 2
SessTokens == {"ok"}
SessOutcomes == {"ok", "invalid_session"}
SessReasons == {"transport close"}

Next ==
  \/ \E s \in Sockets, u \in Users, tok \in SessTokens : AuthStart(s, u, tok)
  \/ \E s \in Sockets, o \in SessOutcomes : AuthFinish(s, o)
  \/ \E s \in Sockets, r \in SessReasons : ClientDisconnect(s, r)
  \/ \E t \in dupTimers : DupTimerFire(t)
  \/ Tick(SessTickMs, SessTickMs * SessMaxTicks)

Spec == Init /\ [][Next]_vars

(***************************************************************************)
(* Rate limiter: checkRateLimit, over rateLimitCache and redisClient.incr   *)
(***************************************************************************)
LMGet(m, k) == m[LMIndex(m, k)].v

Minute(t) == t \div RATE_LIMIT_WINDOW

RateKey(u, minute) == [user |-> u, minute |-> minute]

REDIS_RATE_TTL == 60000

\* const cached = rateLimitCache.get(rateLimitKey): "redis" when there is none,
\* "limited" when cached.count >= RATE_LIMIT_MAX, else "ok" (and cached.count++)
RateCached(u) ==
  LET key == RateKey(u, Minute(now)) IN
  IF ~LMHas(rateLimitCache, key) THEN "redis"
  ELSE IF LMGet(rateLimitCache, key).count >= RATE_LIMIT_MAX THEN "limited"
  ELSE "ok"

RateCachedIncrement(u) ==
  LET key == RateKey(u, Minute(now))
      c == LMGet(rateLimitCache, key)
  IN MapSet(rateLimitCache, key, [c EXCEPT !.count = @ + 1])

\* history: one more send of u passed the limiter in the given window
Passed(u, minute) ==
  LET key == RateKey(u, minute) IN
  MapSet(passed, key, IF LMHas(passed, key) THEN LMGet(passed, key) + 1 ELSE 1)

\* the counter of the Redis server, when it has not expired
RedisLive(key) == LMHas(redisRate, key) /\ now < LMGet(redisRate, key).expires

\* redisClient.incr as checkRateLimit sees it.  MockRedisClient.incr throws on a
\* key it does not hold (item.expires of undefined) and RedisClient.incr then
\* returns 1, or lets the error through to checkRateLimit, which sets count 1.
RedisIncr(key, fails) ==
  IF useMock \/ fails THEN 1
  ELSE IF RedisLive(key) THEN LMGet(redisRate, key).count + 1
  ELSE 1

\* the Redis server after INCR, and EXPIRE 60 when the count is 1
RedisAfterIncr(key, fails) ==
  IF useMock \/ fails THEN redisRate
  ELSE MapSet(redisRate, key,
         [count |-> RedisIncr(key, fails),
          expires |-> IF RedisLive(key) THEN LMGet(redisRate, key).expires
                      ELSE now + REDIS_RATE_TTL])

(***************************************************************************)
(* chatMessage                                                             *)
(***************************************************************************)
NoFile == "nofile"

MentionTokens == {"@wayneAI", "@consultingAI"}

\* /@(wayneAI|consultingAI)\b/g over the content, a sequence of words
AiMentions(content) == SelectSeq(content, LAMBDA w : w \in MentionTokens)

\* socket.emit('error', {code: error.code || 'MESSAGE_ERROR', message})
ChatError(s, message) ==
  Emit(s, [ev |-> "error", code |-> "MESSAGE_ERROR", message |-> message])

NewMessage(r) ==
  [id |-> Len(messages) + 1, room |-> r.room, sender |-> sockUser[r.s],
   content |-> r.content, type |-> r.type, file |-> r.file, ts |-> r.ts,
   deleted |-> FALSE, readers |-> <<>>, reactions |-> {}, req |-> r.id]

\* the event carries no type
NoType == "notype"

\* the parameter's default: type = 'user'
TypeOrDefault(type) == IF type = NoType THEN "user" ELSE type

\* the handler up to its first await: validation, then checkRateLimit on the
\* in-memory cache, then either redisClient.incr or newMessage.save()
ChatMessage(s, room, content, type, file, fileData) ==
  LET u == sockUser[s]
      r == [id |-> nextReq + 1, s |-> s, room |-> room, content |-> content,
            type |-> TypeOrDefault(type),
            file |-> IF fileData # NoFile THEN fileData ELSE file,
            at |-> now, ts |-> now, stage |-> "save"]
  IN
  /\ sockSt[s] = "connected"
  /\ nextReq' = nextReq + 1
  /\ last' = [a |-> "ChatMessage", s |-> s,
              msg |-> [room |-> room, content |-> content, type |-> type, file |-> file,
                       fileData |-> fileData]]
  /\ IF room = "" \/ (content = <<>> /\ file = NoFile)
     THEN /\ recv' = ChatError(s, "content required")
          /\ UNCHANGED <<rateLimitCache, passed, chatReqs>>
     ELSE CASE RateCached(u) = "limited" ->
                 /\ recv' = ChatError(s, "rate limit")
                 /\ UNCHANGED <<rateLimitCache, passed, chatReqs>>
            [] RateCached(u) = "ok" ->
                 /\ rateLimitCache' = RateCachedIncrement(u)
                 /\ passed' = Passed(u, Minute(now))
                 /\ chatReqs' = chatReqs \cup {r}
                 /\ UNCHANGED recv
            [] OTHER ->
                 /\ chatReqs' = chatReqs \cup {[r EXCEPT !.stage = "incr"]}
                 /\ UNCHANGED <<recv, rateLimitCache, passed>>
  /\ UNCHANGED <<now, sockSt, sockUser, sockRooms, closeInfo, connectedUsers, userRooms,
                 dupTimers, dupLog, messageQueues, streamingSessions, leaveJobs,
                 nextCleanup, messageLoadRetries, redisRate, useMock, messages,
                 histVars, readVars, reactVars, aiVars, roomLog, extVars>>

\* checkRateLimit from the answer of redisClient.incr on
RateIncrDone(r, fails) ==
  LET u == sockUser[r.s]
      key == RateKey(u, Minute(r.at))
      count == RedisIncr(key, fails)
  IN
  /\ r \in chatReqs /\ r.stage = "incr"
  /\ fails => ~useMock
  /\ last' = [a |-> "RateIncrDone", s |-> r.s, fails |-> fails, at |-> r.at]
  /\ useMock' = (useMock \/ fails)
  /\ redisRate' = RedisAfterIncr(key, fails)
  /\ IF count > RATE_LIMIT_MAX
     THEN /\ recv' = ChatError(r.s, "rate limit")
          /\ chatReqs' = chatReqs \ {r}
          /\ UNCHANGED <<rateLimitCache, passed>>
     ELSE /\ rateLimitCache' = LMSet(rateLimitCache, rateLimitCacheMax, key,
                                     [count |-> count, timestamp |-> r.at])
          /\ passed' = Passed(u, Minute(r.at))
          /\ chatReqs' = (chatReqs \ {r}) \cup {[r EXCEPT !.stage = "save", !.ts = now]}
          /\ UNCHANGED recv
  /\ histCache' = Fallback(histCache, fails)
  /\ accessCache' = Fallback(accessCache, fails)
  /\ userCache' = Fallback(userCache, fails)
  /\ UNCHANGED <<now, sockSt, sockUser, sockRooms, closeInfo, connectedUsers, userRooms,
                 dupTimers, dupLog, messageQueues, streamingSessions, leaveJobs,
                 nextCleanup, messageLoadRetries, nextReq, messages, loads, nextLoad,
                 readVars, reactVars, aiVars, roomLog, mapVars, clusterVars, fetchVars, participants,
                 joinVars>>

\* io.to(room).emit as the room sees it
RoomLogged(log, r, e) == [log EXCEPT ![r] = Append(@, e)]

\* match[1] of the mention pattern
AiType(w) == IF w = "@wayneAI" THEN "wayneAI" ELSE "consultingAI"

\* content.replace(new RegExp(`@${ai}\\b`, 'g'), '').trim()
Query(content, w) == SelectSeq(content, LAMBDA x : x # w)

\* `${roomId}_${aiType}_${Date.now()}`
SessionId(room, ai, t) == [room |-> room, ai |-> ai, at |-> t]

\* the session object of handleAIResponse; it has no userId field
NewSession(room, ai) ==
  [room |-> room, aiType |-> ai, content |-> <<>>, timestamp |-> now,
   lastActivity |-> now, userId |-> NoUser]

\* handleAIResponse up to the call of aiService.generateResponse: the session
\* is stored under its id, aiMessageStart goes to the room, the generator starts
handleAIResponse(room, w, content, st) ==
  LET ai == AiType(w)
      sid == SessionId(room, ai, now)
      e == [ev |-> "aiMessageStart", sid |-> sid, aiType |-> ai]
  IN [ss |-> LMSet(st.ss, streamingSessionsMax, sid, NewSession(room, ai)),
      log |-> RoomLogged(st.log, room, e),
      rv |-> EmitRoomTo(st.rv, room, e),
      jobs |-> st.jobs \cup {[id |-> st.n + 1, room |-> room, aiType |-> ai, sid |-> sid,
                              query |-> Query(content, w), sent |-> 0,
                              ts |-> now, stage |-> "stream"]},
      n |-> st.n + 1]

RECURSIVE StartAI(_, _, _, _)
\* for (const ai of aiMentions) handleAIResponse(io, room, ai, query)
StartAI(room, mentions, content, st) ==
  IF mentions = <<>> THEN st
  ELSE StartAI(room, Tail(mentions), content,
               handleAIResponse(room, Head(mentions), content, st))

\* as ChatSaveDone, but the message event is emitted before save() settles
ChatSaveDone_EmitFirst(r, ok) ==
  LET e == [ev |-> "message", id |-> Len(messages) + 1]
      st == StartAI(r.room, AiMentions(r.content), r.content,
                    [ss |-> streamingSessions,
                     log |-> RoomLogged(roomLog, r.room, e),
                     rv |-> EmitRoomTo(recv, r.room, e),
                     jobs |-> aiJobs, n |-> nextJob])
  IN
  /\ r \in chatReqs /\ r.stage = "save"
  /\ last' = [a |-> "ChatSaveDone", s |-> r.s, ok |-> ok,
              mentions |-> AiMentions(r.content)]
  /\ chatReqs' = chatReqs \ {r}
  /\ IF ok
     THEN /\ messages' = Append(messages, NewMessage(r))
          /\ recv' = st.rv
          /\ roomLog' = st.log
          /\ streamingSessions' = st.ss
          /\ aiJobs' = st.jobs
          /\ nextJob' = st.n
     ELSE /\ recv' = EmitRoomTo(ChatError(r.s, "save failed"), r.room, e)
          /\ UNCHANGED <<messages, roomLog, streamingSessions, aiVars>>
  /\ UNCHANGED <<now, sockSt, sockUser, sockRooms, closeInfo, connectedUsers, userRooms,
                 dupTimers, dupLog, messageQueues, rateLimitCache,
                 leaveJobs, nextCleanup, messageLoadRetries, redisRate, useMock, nextReq,
                 passed, histVars, readVars, reactVars, extVars>>

\* newMessage.save() and populate() return: fan out to the room, then start
\* one AI response per mention found; when save() rejects, the catch block
\* emits error to the sender
ChatSaveDone(r, ok) ==
  LET e == [ev |-> "message", id |-> Len(messages) + 1]
      st == StartAI(r.room, AiMentions(r.content), r.content,
                    [ss |-> streamingSessions,
                     log |-> RoomLogged(roomLog, r.room, e),
                     rv |-> EmitRoomTo(recv, r.room, e),
                     jobs |-> aiJobs, n |-> nextJob])
  IN
  /\ r \in chatReqs /\ r.stage = "save"
  /\ last' = [a |-> "ChatSaveDone", s |-> r.s, ok |-> ok,
              mentions |-> AiMentions(r.content)]
  /\ chatReqs' = chatReqs \ {r}
  /\ IF ok
     THEN /\ messages' = Append(messages, NewMessage(r))
          /\ recv' = st.rv
          /\ roomLog' = st.log
          /\ streamingSessions' = st.ss
          /\ aiJobs' = st.jobs
          /\ nextJob' = st.n
     ELSE /\ recv' = ChatError(r.s, "save failed")
          /\ UNCHANGED <<messages, roomLog, streamingSessions, aiVars>>
  /\ UNCHANGED <<now, sockSt, sockUser, sockRooms, closeInfo, connectedUsers, userRooms,
                 dupTimers, dupLog, messageQueues, rateLimitCache,
                 leaveJobs, nextCleanup, messageLoadRetries, redisRate, useMock, nextReq,
                 passed, histVars, readVars, reactVars, extVars>>

(***************************************************************************)
(* memoryCleanup: the janitor interval                                     *)
(***************************************************************************)
STREAM_IDLE_MS == 1800000
RATE_ENTRY_MAX_AGE == 120000
RETRY_MAX_AGE == 300000

StreamIdle_Never(e) == FALSE

\* now - session.lastActivity > 30 * 60 * 1000
StreamIdle(e) == now - e.v.lastActivity > STREAM_IDLE_MS

Janitor(heapCritical) ==
  LET dead == {connectedUsers[i].k : i \in {j \in 1..Len(connectedUsers) :
                                            sockSt[connectedUsers[j].v] # "connected"}}
      rates == SelectSeq(rateLimitCache, LAMBDA e : ~(now - e.v.timestamp > RATE_ENTRY_MAX_AGE))
  IN
  /\ now >= nextCleanup
  /\ nextCleanup' = nextCleanup + CLEANUP_INTERVAL
  /\ last' = [a |-> "Janitor", s |-> NoSock, heapCritical |-> heapCritical,
              idle |-> Len(SelectSeq(streamingSessions, StreamIdle)),
              aged |-> Len(rateLimitCache) - Len(rates)]
  /\ streamingSessions' = SelectSeq(streamingSessions, LAMBDA e : ~StreamIdle(e))
  /\ rateLimitCache' = IF heapCritical THEN <<>> ELSE rates
  /\ connectedUsers' = SelectSeq(connectedUsers, LAMBDA e : e.k \notin dead)
  /\ userRooms' = SelectSeq(userRooms, LAMBDA e : e.k \notin dead)
  /\ messageLoadRetries' =
       SelectSeq(messageLoadRetries, LAMBDA e : ~(now - e.v.lastAttempt > RETRY_MAX_AGE))
  /\ messageQueues' = IF heapCritical THEN <<>> ELSE messageQueues
  /\ UNCHANGED <<now, sockSt, sockUser, sockRooms, recv, closeInfo, dupTimers, dupLog,
                 leaveJobs, rateVars, messages, histVars, readVars, reactVars, aiVars,
                 roomLog, extVars>>

(***************************************************************************)
(* SpecRate: one user sending through the rate limiter, with disconnect    *)
(* and reconnect, the janitor and cache failure                            *)
(***************************************************************************)
RateMaxSends == 42
RateMaxSockets == 2

InitRate ==
  /\ now = 0
  /\ sockSt = [s \in Sockets |-> IF s = 1 THEN "connected" ELSE "new"]
  /\ sockUser = [s \in Sockets |-> IF s = 1 THEN "u1" ELSE NoUser]
  /\ sockRooms = [s \in Sockets |-> {}]
  /\ recv = [s \in Sockets |-> <<>>]
  /\ closeInfo = [s \in Sockets |-> [reason |-> "none", at |-> 0]]
  /\ connectedUsers = <<[k |-> "u1", v |-> 1]>>
  /\ userRooms = <<>>
  /\ dupTimers = {}
  /\ dupLog = {}
  /\ messageQueues = <<>>
  /\ rateLimitCache = <<>>
  /\ streamingSessions = <<>>
  /\ leaveJobs = {}
  /\ last = [a |-> "init", s |-> NoSock]
  /\ nextCleanup = 0
  /\ messageLoadRetries = <<>>
  /\ redisRate = <<>>
  /\ useMock = FALSE
  /\ chatReqs = {}
  /\ nextReq = 0
  /\ messages = <<>>
  /\ passed = <<>>
  /\ InitIdle

NextRate ==
  \/ \E s \in Sockets :
        /\ nextReq < RateMaxSends
        /\ chatReqs = {}
        /\ ChatMessage(s, "r1", <<"hi">>, "text", NoFile, NoFile)
  \/ \E r \in chatReqs : RateIncrDone(r, FALSE)
  \/ \E r \in chatReqs : ChatSaveDone(r, TRUE)
  \/ \E s \in Sockets : ClientDisconnect(s, "transport close")
  \/ \E s \in 1..RateMaxSockets : ~DuplicateFound(s, "u1") /\ AuthStart(s, "u1", "ok")
  \/ \E s \in Sockets : AuthFinish(s, "ok")
  \/ \E h \in BOOLEAN : Janitor(h)

SpecRate == InitRate /\ [][NextRate]_vars

(***************************************************************************)
(* SpecSend: user u1 sends text messages to room r1, which u1 and u2 have  *)
(* joined, one after the other                                             *)
(***************************************************************************)
SendMaxSends == 42
SendMaxTicks == 1

\* sockets 1 (u1) and 2 (u2) are connected and have joined room r1
InitJoined ==
  /\ sockSt = [s \in Sockets |-> IF s \in {1, 2} THEN "connected" ELSE "new"]
  /\ sockUser = [s \in Sockets |-> IF s = 1 THEN "u1" ELSE IF s = 2 THEN "u2" ELSE NoUser]
  /\ sockRooms = [s \in Sockets |-> IF s \in {1, 2} THEN {"r1"} ELSE {}]
  /\ recv = [s \in Sockets |-> <<>>]
  /\ closeInfo = [s \in Sockets |-> [reason |-> "none", at |-> 0]]
  /\ connectedUsers = <<[k |-> "u1", v |-> 1], [k |-> "u2", v |-> 2]>>
  /\ userRooms = <<[k |-> "u1", v |-> "r1"], [k |-> "u2", v |-> "r1"]>>
  /\ dupTimers = {}
  /\ dupLog = {}
  /\ messageQueues = <<>>
  /\ rateLimitCache = <<>>
  /\ streamingSessions = <<>>
  /\ leaveJobs = {}
  /\ last = [a |-> "init", s |-> NoSock]
  /\ nextCleanup = CLEANUP_INTERVAL
  /\ messageLoadRetries = <<>>
  /\ redisRate = <<>>
  /\ useMock = FALSE
  /\ chatReqs = {}
  /\ nextReq = 0
  /\ passed = <<>>
  /\ InitIdle

InitSend ==
  /\ now = 0
  /\ messages = <<>>
  /\ InitJoined

NextSend ==
  \/ /\ nextReq < SendMaxSends
     /\ chatReqs = {}
     /\ ChatMessage(1, "r1", <<"hi">>, "text", NoFile, NoFile)
  \/ \E r \in chatReqs : RateIncrDone(r, FALSE)
  \/ \E r \in chatReqs : ChatSaveDone(r, TRUE)
  \/ Tick(RATE_LIMIT_WINDOW, RATE_LIMIT_WINDOW * SendMaxTicks)

SpecSend == InitSend /\ [][NextSend]_vars

(***************************************************************************)
(* loadMessages: one page of a room's history, through the 30 s cache      *)
(***************************************************************************)
\* `before` undefined; also the null oldestTimestamp of an empty page
NoBefore == -1

HIST_CACHE_TTL == 30000

\* `messages:${roomId}:${before || 'latest'}:${limit}`
HistKey(room, before, limit) == [room |-> room, before |-> before, limit |-> limit]

\* { room: roomId, isDeleted: { $ne: true }, timestamp: { $lt: before } }
Matching(room, before) ==
  {i \in 1..Len(messages) : /\ messages[i].room = room
                            /\ ~messages[i].deleted
                            /\ (before # NoBefore => messages[i].ts < before)}

\* the first document of S in the index order { room: 1, timestamp: -1 }
Newest(S) ==
  CHOOSE i \in S : \A j \in S : \/ messages[j].ts < messages[i].ts
                                \/ (messages[j].ts = messages[i].ts /\ j <= i)

RECURSIVE SortLimit(_, _)
\* .sort({ timestamp: -1 }).limit(k)
SortLimit(S, k) ==
  IF S = {} \/ k = 0 THEN <<>>
  ELSE LET i == Newest(S) IN <<i>> \o SortLimit(S \ {i}, k - 1)

RECURSIVE SortAscending(_)
\* Array.prototype.sort((a, b) => a.timestamp - b.timestamp), which is stable
SortAscending(seq) ==
  IF seq = <<>> THEN <<>>
  ELSE LET i == CHOOSE i \in 1..Len(seq) : \A j \in 1..Len(seq) :
                    \/ messages[seq[i]].ts < messages[seq[j]].ts
                    \/ (messages[seq[i]].ts = messages[seq[j]].ts /\ i <= j)
       IN <<seq[i]>> \o SortAscending(SubSeq(seq, 1, i - 1) \o SubSeq(seq, i + 1, Len(seq)))

\* messages.slice(0, limit)
Slice(seq, limit) == SubSeq(seq, 1, Min({limit, Len(seq)}))

Find_NoExtra(room, before, limit) == SortLimit(Matching(room, before), limit)

\* Message.find(query).sort({ timestamp: -1 }).limit(limit + 1)
Find(room, before, limit) == SortLimit(Matching(room, before), limit + 1)

\* the result object built from the documents found
LoadResult(room, before, limit) ==
  LET found == Find(room, before, limit)
      sortedMessages == SortAscending(Slice(found, limit))
  IN [messages |-> sortedMessages,
      hasMore |-> Len(found) > limit,
      oldestTimestamp |-> IF Len(sortedMessages) > 0 THEN messages[sortedMessages[1]].ts
                          ELSE NoBefore]

NoResult == [messages |-> <<>>, hasMore |-> FALSE, oldestTimestamp |-> NoBefore]

HistCached(key) == LMHas(histCache, key) /\ now < LMGet(histCache, key).expires

\* socket.emit('previousMessagesLoaded', result)
Loaded(l, res) ==
  Emit(l.s, [ev |-> "previousMessagesLoaded", room |-> l.room, before |-> l.before,
             limit |-> l.limit, messages |-> res.messages, hasMore |-> res.hasMore,
             oldestTimestamp |-> res.oldestTimestamp])

LOAD_DELAY == 300
MAX_RETRIES == 3
MESSAGE_LOAD_TIMEOUT == 8000
RETRY_DELAY == 1500
RETRY_DELAY_CAP == 5000
messageLoadRetriesMax == 200

\* who awaits loadMessages: nobody modelled, a fetchPreviousMessages handler
\* (through loadMessagesWithRetry) or a joinRoom handler
NoCaller == [kind |-> "none", id |-> 0]

FetchCaller(id) == [kind |-> "fetch", id |-> id]

JoinCaller(id) == [kind |-> "join", id |-> id]

\* `${roomId}:${socket.user.id}:${before || 'initial'}`: queueKey and retryKey
QueueKey(room, user, before) == [room |-> room, user |-> user, before |-> before]

FetchKey(f) == QueueKey(f.room, f.user, f.before)

FetchOf(id) == CHOOSE f \in fetchReqs : f.id = id

RECURSIVE Pow(_, _)
Pow(b, k) == IF k = 0 THEN 1 ELSE b * Pow(b, k - 1)

\* Math.min(RETRY_DELAY * Math.pow(1.5, retryCount), 5000)
RetryDelay(retryCount) ==
  Min({(RETRY_DELAY * Pow(3, retryCount)) \div Pow(2, retryCount), RETRY_DELAY_CAP})

\* finally: setTimeout(() => messageQueues.delete(queueKey), LOAD_DELAY)
QueueTimer(key) == [key |-> key, at |-> now + LOAD_DELAY]

Logged(id, ev) == [fetchLog EXCEPT ![id].events = Append(@, ev)]

\* catch of fetchPreviousMessages: the error goes to the client, then finally
FetchFail(f, message) ==
  /\ recv' = Emit(f.s, [ev |-> "error", type |-> "LOAD_ERROR", message |-> message])
  /\ fetchReqs' = fetchReqs \ {f}
  /\ queueTimers' = queueTimers \cup {QueueTimer(FetchKey(f))}
  /\ fetchLog' = Logged(f.id, "error")

\* a new call of loadMessages: the timeout timer is started at once
NewLoad(id, s, room, before, limit, caller) ==
  [id |-> id, s |-> s, room |-> room, before |-> before, limit |-> limit,
   stage |-> "cache", res |-> NoResult, caller |-> caller,
   deadline |-> now + MESSAGE_LOAD_TIMEOUT]

JoinOf(id) == CHOOSE j \in joinReqs : j.id = id

\* streamingSessions.values().filter(session => session.room === roomId)
ActiveStreams(room) ==
  {streamingSessions[i].k :
     i \in {n \in 1..Len(streamingSessions) : streamingSessions[n].v.room = room}}

\* joinRoom after loadMessages: joinRoomSuccess to the caller, participantsUpdate
\* to the room
JoinDone(j, res) ==
  LET update == [ev |-> "participantsUpdate", participants |-> j.participants] IN
  /\ recv' = EmitRoomTo(Emit(j.s, [ev |-> "joinRoomSuccess", roomId |-> j.room,
                                   participants |-> j.participants,
                                   messages |-> res.messages, hasMore |-> res.hasMore,
                                   oldestTimestamp |-> res.oldestTimestamp,
                                   activeStreams |-> ActiveStreams(j.room)]),
                        j.room, update)
  /\ roomLog' = RoomLogged(roomLog, j.room, update)
  /\ joinReqs' = joinReqs \ {j}

\* catch of joinRoom
JoinFail(j, message) ==
  /\ recv' = Emit(j.s, [ev |-> "joinRoomError", message |-> message])
  /\ joinReqs' = joinReqs \ {j}

\* loadMessages returns res to its caller: loadMessagesWithRetry forgets the
\* retries, fetchPreviousMessages sends the result and runs its finally
Return(l, res) ==
  IF l.caller.kind = "fetch"
  THEN LET f == FetchOf(l.caller.id) IN
       /\ recv' = Loaded(l, res)
       /\ messageLoadRetries' = LMDelete(messageLoadRetries, FetchKey(f))
       /\ fetchReqs' = fetchReqs \ {f}
       /\ queueTimers' = queueTimers \cup {QueueTimer(FetchKey(f))}
       /\ fetchLog' = Logged(f.id, "previousMessagesLoaded")
       /\ UNCHANGED <<joinReqs, roomLog>>
  ELSE IF l.caller.kind = "join"
  THEN /\ JoinDone(JoinOf(l.caller.id), res)
       /\ UNCHANGED <<messageLoadRetries, fetchReqs, queueTimers, fetchLog>>
  ELSE /\ recv' = Loaded(l, res)
       /\ UNCHANGED <<messageLoadRetries, fetchReqs, queueTimers, fetchLog, joinReqs,
                      roomLog>>

\* loadMessages throws: loadMessagesWithRetry waits and calls it again while
\* retryCount < MAX_RETRIES, and throws to fetchPreviousMessages otherwise;
\* joinRoom answers joinRoomError
Throw(l, message) ==
  IF l.caller.kind = "fetch"
  THEN LET f == FetchOf(l.caller.id)
           delay == RetryDelay(f.retryCount)
       IN
       /\ UNCHANGED <<joinReqs, roomLog>>
       /\ IF f.retryCount < MAX_RETRIES
          THEN /\ messageLoadRetries' =
                    LMSet(messageLoadRetries, messageLoadRetriesMax, FetchKey(f),
                          [count |-> f.retryCount + 1, lastAttempt |-> now])
               /\ fetchReqs' = (fetchReqs \ {f}) \cup
                                 {[f EXCEPT !.stage = "wait", !.wake = now + delay]}
               /\ fetchLog' = [fetchLog EXCEPT ![f.id].waits = Append(@, delay)]
               /\ UNCHANGED <<recv, queueTimers>>
          ELSE /\ messageLoadRetries' = LMDelete(messageLoadRetries, FetchKey(f))
               /\ FetchFail(f, message)
  ELSE IF l.caller.kind = "join"
  THEN /\ JoinFail(JoinOf(l.caller.id), message)
       /\ UNCHANGED <<messageLoadRetries, fetchReqs, queueTimers, fetchLog, roomLog>>
  ELSE UNCHANGED <<recv, messageLoadRetries, fetchReqs, queueTimers, fetchLog, joinReqs,
                   roomLog>>

\* loadMessages is called and waits for redisClient.get(cacheKey)
LoadStart(s, room, before, limit) ==
  /\ sockSt[s] = "connected"
  /\ nextLoad' = nextLoad + 1
  /\ loads' = loads \cup {NewLoad(nextLoad + 1, s, room, before, limit, NoCaller)}
  /\ last' = [a |-> "LoadStart", s |-> s]
  /\ UNCHANGED <<now, sockSt, sockUser, sockRooms, recv, closeInfo, connectedUsers,
                 userRooms, dupTimers, dupLog, messageQueues, rateLimitCache,
                 streamingSessions, leaveJobs, nextCleanup, messageLoadRetries, rateVars,
                 messages, histCache, readVars, reactVars, aiVars, roomLog, extVars>>

\* the cache answers: a live entry is the reply, otherwise the query is sent
LoadCacheDone(l) ==
  LET key == HistKey(l.room, l.before, l.limit)
      hit == HistCached(key)
      res == IF hit THEN LMGet(histCache, key).res ELSE NoResult
  IN
  /\ l \in loads /\ l.stage = "cache"
  /\ last' = [a |-> "LoadCacheDone", s |-> l.s, built |-> hit, room |-> l.room,
              before |-> l.before, limit |-> l.limit, res |-> res]
  /\ IF hit
     THEN /\ loads' = loads \ {l}
          /\ Return(l, res)
     ELSE /\ loads' = (loads \ {l}) \cup {[l EXCEPT !.stage = "db"]}
          /\ UNCHANGED <<recv, messageLoadRetries, fetchReqs, queueTimers, fetchLog,
                         joinReqs, roomLog>>
  /\ UNCHANGED <<now, sockSt, sockUser, sockRooms, closeInfo, connectedUsers,
                 userRooms, dupTimers, dupLog, messageQueues, rateLimitCache,
                 streamingSessions, leaveJobs, nextCleanup, rateVars, messages, nextLoad,
                 histCache, readVars, reactVars, aiVars, mapVars, clusterVars, nextFetch, roomVars,
                 nextJoin, joinSaves>>

\* the database answers: the result is built and redisClient.setex is awaited
LoadDbDone(l) ==
  LET res == LoadResult(l.room, l.before, l.limit) IN
  /\ l \in loads /\ l.stage = "db"
  /\ last' = [a |-> "LoadDbDone", s |-> l.s, built |-> TRUE, room |-> l.room,
              before |-> l.before, limit |-> l.limit, res |-> res]
  /\ loads' = (loads \ {l}) \cup {[l EXCEPT !.stage = "setex", !.res = res]}
  /\ UNCHANGED <<now, sockSt, sockUser, sockRooms, recv, closeInfo, connectedUsers,
                 userRooms, dupTimers, dupLog, messageQueues, rateLimitCache,
                 streamingSessions, leaveJobs, nextCleanup, messageLoadRetries, rateVars,
                 messages, nextLoad, histCache, readVars, reactVars, aiVars, roomLog, extVars>>

\* the timer of timeoutPromise expires while Promise.race waits for the
\* database: the race rejects with 'Message loading timed out'
LoadTimeout(l) ==
  /\ l \in loads /\ l.stage = "db"
  /\ now >= l.deadline
  /\ last' = [a |-> "LoadTimeout", s |-> l.s, caller |-> l.caller]
  /\ loads' = loads \ {l}
  /\ Throw(l, "Message loading timed out")
  /\ UNCHANGED <<now, sockSt, sockUser, sockRooms, closeInfo, connectedUsers,
                 userRooms, dupTimers, dupLog, messageQueues, rateLimitCache,
                 streamingSessions, leaveJobs, nextCleanup, rateVars, messages, nextLoad,
                 histCache, readVars, reactVars, aiVars, mapVars, clusterVars, nextFetch, roomVars,
                 nextJoin, joinSaves>>

\* Message.updateMany({_id: {$in: messageIds}, 'readers.userId': {$ne: user}}, $push),
\* not awaited; the database takes the documents one after the other
ReadMarking(l) ==
  IF Len(l.res.messages) > 0
  THEN readOps \cup {[id |-> nextOp + 1, kind |-> "many", s |-> l.s, user |-> sockUser[l.s],
                      room |-> NoRoom, ids |-> l.res.messages,
                      todo |-> 1..Len(l.res.messages), readAt |-> now]}
  ELSE readOps

\* redisClient.setex(cacheKey, 30, result) returns: the read marking is started
\* and the result goes back to the caller, which sends it to the client
LoadSetexDone(l) ==
  /\ l \in loads /\ l.stage = "setex"
  /\ last' = [a |-> "LoadSetexDone", s |-> l.s]
  /\ loads' = loads \ {l}
  /\ histCache' = MapSet(histCache, HistKey(l.room, l.before, l.limit),
                         [res |-> l.res, expires |-> now + HIST_CACHE_TTL])
  /\ readOps' = ReadMarking(l)
  /\ nextOp' = nextOp + 1
  /\ Return(l, l.res)
  /\ UNCHANGED <<now, sockSt, sockUser, sockRooms, closeInfo, connectedUsers,
                 userRooms, dupTimers, dupLog, messageQueues, rateLimitCache,
                 streamingSessions, leaveJobs, nextCleanup, rateVars, messages, nextLoad,
                 reactVars, aiVars, mapVars, clusterVars, nextFetch, roomVars, nextJoin, joinSaves>>

AfterCacheError_Abandon(l) == [l EXCEPT !.stage = "failed"]

\* no cached result: loadMessages goes on to the query
AfterCacheError(l) == [l EXCEPT !.stage = "db"]

\* the Redis server fails redisClient.get(cacheKey): the mock, which is empty,
\* answers null and the query is sent
LoadCacheFail(l) ==
  /\ l \in loads /\ l.stage = "cache"
  /\ ~useMock
  /\ last' = [a |-> "LoadCacheFail", s |-> l.s, room |-> l.room,
              cached |-> HistCached(HistKey(l.room, l.before, l.limit))]
  /\ useMock' = TRUE
  /\ histCache' = MockStore
  /\ accessCache' = MockStore
  /\ userCache' = MockStore
  /\ loads' = (loads \ {l}) \cup {AfterCacheError(l)}
  /\ UNCHANGED <<now, sockSt, sockUser, sockRooms, recv, closeInfo, connectedUsers,
                 userRooms, dupTimers, dupLog, messageQueues, rateLimitCache,
                 streamingSessions, leaveJobs, nextCleanup, messageLoadRetries, redisRate,
                 chatReqs, nextReq, passed, messages, nextLoad, readVars, reactVars, aiVars,
                 roomLog, mapVars, clusterVars, fetchVars, participants, joinVars>>

\* the Redis server fails redisClient.setex(cacheKey, 30, result): the entry
\* goes to the mock and the result goes back to the caller as before
LoadSetexFail(l) ==
  /\ l \in loads /\ l.stage = "setex"
  /\ ~useMock
  /\ last' = [a |-> "LoadSetexFail", s |-> l.s, room |-> l.room, res |-> l.res]
  /\ useMock' = TRUE
  /\ histCache' = MapSet(MockStore, HistKey(l.room, l.before, l.limit),
                         [res |-> l.res, expires |-> now + HIST_CACHE_TTL])
  /\ accessCache' = MockStore
  /\ userCache' = MockStore
  /\ loads' = loads \ {l}
  /\ readOps' = ReadMarking(l)
  /\ nextOp' = nextOp + 1
  /\ Return(l, l.res)
  /\ UNCHANGED <<now, sockSt, sockUser, sockRooms, closeInfo, connectedUsers,
                 userRooms, dupTimers, dupLog, messageQueues, rateLimitCache,
                 streamingSessions, leaveJobs, nextCleanup, redisRate, chatReqs, nextReq,
                 passed, messages, nextLoad, reactVars, aiVars, mapVars, clusterVars, nextFetch,
                 participants, nextJoin, joinSaves>>

(***************************************************************************)
(* Read marking: markMessagesAsRead and the writes of the database         *)
(***************************************************************************)
HasReader(m, u) == \E i \in 1..Len(messages[m].readers) : messages[m].readers[i].userId = u

ReadFilter_NoReaderTest(o, m) ==
  /\ m \in 1..Len(messages)
  /\ o.room # NoRoom => messages[m].room = o.room

\* filter { _id: messageId, room: roomId, 'readers.userId': { $ne: socket.user.id } };
\* the updateMany of loadMessages has no room
ReadFilter(o, m) ==
  /\ m \in 1..Len(messages)
  /\ o.room # NoRoom => messages[m].room = o.room
  /\ ~HasReader(m, o.user)

\* { $push: { readers: { userId, readAt } } } on the document the filter matches
PushReader(o, m) ==
  IF ReadFilter(o, m)
  THEN [messages EXCEPT ![m].readers = Append(@, [userId |-> o.user, readAt |-> o.readAt])]
  ELSE messages

\* socket.on('markMessagesAsRead') up to Message.bulkWrite(bulkOps, { ordered: false })
MarkMessagesAsRead(s, roomId, messageIds) ==
  /\ sockSt[s] = "connected"
  /\ last' = [a |-> "MarkMessagesAsRead", s |-> s]
  /\ IF Len(messageIds) = 0
     THEN UNCHANGED readVars
     ELSE /\ nextOp' = nextOp + 1
          /\ readOps' = readOps \cup
               {[id |-> nextOp + 1, kind |-> "bulk", s |-> s, user |-> sockUser[s],
                 room |-> roomId, ids |-> messageIds, todo |-> 1..Len(messageIds),
                 readAt |-> now]}
  /\ UNCHANGED <<now, sockSt, sockUser, sockRooms, recv, closeInfo, connectedUsers,
                 userRooms, dupTimers, dupLog, messageQueues, rateLimitCache,
                 streamingSessions, leaveJobs, nextCleanup, messageLoadRetries, rateVars,
                 messages, histVars, reactVars, aiVars, roomLog, extVars>>

\* the database runs one updateOne of a write: each is atomic on its document.
\* An unordered bulkWrite runs them in any order, an updateMany in the order found.
ApplyRead(o, i) ==
  LET m == o.ids[i]
      rest == [o EXCEPT !.todo = @ \ {i}]
  IN
  /\ o \in readOps /\ i \in o.todo
  /\ o.kind = "many" => i = Min(o.todo)
  /\ last' = [a |-> "ApplyRead", s |-> o.s, op |-> o, m |-> m,
              had |-> m \in 1..Len(messages) /\ HasReader(m, o.user)]
  /\ messages' = PushReader(o, m)
  /\ readOps' = IF o.kind = "many" /\ rest.todo = {}
                THEN readOps \ {o}
                ELSE (readOps \ {o}) \cup {rest}
  /\ UNCHANGED <<now, sockSt, sockUser, sockRooms, recv, closeInfo, connectedUsers,
                 userRooms, dupTimers, dupLog, messageQueues, rateLimitCache,
                 streamingSessions, leaveJobs, nextCleanup, messageLoadRetries, rateVars,
                 nextOp, histVars, reactVars, aiVars, roomLog, extVars>>

EmitOthers_AlsoSender(s, r, e) ==
  [x \in Sockets |-> IF r \in sockRooms[x] THEN Append(recv[x], e) ELSE recv[x]]

\* socket.to(roomId).emit: every socket of the room but the sender
EmitOthers(s, r, e) ==
  [x \in Sockets |-> IF r \in sockRooms[x] /\ x # s THEN Append(recv[x], e) ELSE recv[x]]

\* Message.bulkWrite returns: the room is told
MarkReadDone(o) ==
  /\ o \in readOps /\ o.kind = "bulk" /\ o.todo = {}
  /\ last' = [a |-> "MarkReadDone", s |-> o.s, op |-> o]
  /\ readOps' = readOps \ {o}
  /\ recv' = EmitOthers(o.s, o.room,
                        [ev |-> "messagesRead", userId |-> o.user, messageIds |-> o.ids])
  /\ UNCHANGED <<now, sockSt, sockUser, sockRooms, closeInfo, connectedUsers,
                 userRooms, dupTimers, dupLog, messageQueues, rateLimitCache,
                 streamingSessions, leaveJobs, nextCleanup, messageLoadRetries, rateVars,
                 messages, nextOp, histVars, reactVars, aiVars, roomLog, extVars>>

\* Message.bulkWrite rejects: the error is logged, nobody is told
MarkReadFail(o) ==
  /\ o \in readOps /\ o.kind = "bulk"
  /\ last' = [a |-> "MarkReadFail", s |-> o.s, op |-> o]
  /\ readOps' = readOps \ {o}
  /\ UNCHANGED <<now, sockSt, sockUser, sockRooms, recv, closeInfo, connectedUsers,
                 userRooms, dupTimers, dupLog, messageQueues, rateLimitCache,
                 streamingSessions, leaveJobs, nextCleanup, messageLoadRetries, rateVars,
                 messages, nextOp, histVars, reactVars, aiVars, roomLog, extVars>>

(***************************************************************************)
(* typing                                                                  *)
(***************************************************************************)
\* the whole handler: socket.to(roomId).emit('userTyping', ...)
Typing(s, roomId, isTyping) ==
  /\ sockSt[s] = "connected"
  /\ last' = [a |-> "Typing", s |-> s, room |-> roomId]
  /\ recv' = IF roomId = "" THEN recv
             ELSE EmitOthers(s, roomId, [ev |-> "userTyping", userId |-> sockUser[s],
                                         isTyping |-> isTyping])
  /\ UNCHANGED <<now, sockSt, sockUser, sockRooms, closeInfo, connectedUsers,
                 userRooms, dupTimers, dupLog, messageQueues, rateLimitCache,
                 streamingSessions, leaveJobs, restVars>>

(***************************************************************************)
(* SpecHist: a client pages through the history of room r1 over a stored   *)
(* collection that does not change, one load after the other and each      *)
(* after the read marking of the one before                                *)
(***************************************************************************)
HistMaxMsgs == 3
HistMaxLoads == 2
HistLimits == {1, 2}

\* the 60 messages of the paging scenario
ScenarioN == 2 * BATCH_SIZE + 10

Stored(i, room, deleted, ts) ==
  [id |-> i, room |-> room, sender |-> "u2", content |-> <<"hi">>, type |-> "text",
   file |-> NoFile, ts |-> ts, deleted |-> deleted, readers |-> <<>>, reactions |-> {}]

MsgKinds == {"here", "elsewhere", "deleted"}

\* a small collection of messages of r1, of r2 and deleted ones, inserted in
\* or against the order of their timestamps, or the scenario's 60 messages
InitHist ==
  /\ now = ScenarioN + 1
  /\ \/ \E n \in 0..HistMaxMsgs : \E kind \in [1..n -> MsgKinds] : \E rev \in BOOLEAN :
          messages = [i \in 1..n |->
                        Stored(i, IF kind[i] = "elsewhere" THEN "r2" ELSE "r1",
                               kind[i] = "deleted", IF rev THEN n + 1 - i ELSE i)]
     \/ messages = [i \in 1..ScenarioN |-> Stored(i, "r1", FALSE, i)]
  /\ InitJoined

IsLoaded(e) == e.ev = "previousMessagesLoaded"

Replies(s) == {recv[s][i] : i \in {j \in 1..Len(recv[s]) : IsLoaded(recv[s][j])}}

\* the client pages: `before` is absent or the oldestTimestamp of a reply
BeforeInputs(s) == {NoBefore} \cup {e.oldestTimestamp : e \in Replies(s)}

LimitInputs == IF Len(messages) > HistMaxMsgs THEN {BATCH_SIZE} ELSE HistLimits

NextHist ==
  \/ \E before \in BeforeInputs(1) : \E limit \in LimitInputs :
        /\ loads = {} /\ readOps = {}
        /\ nextLoad < HistMaxLoads
        /\ LoadStart(1, "r1", before, limit)
  \/ \E l \in loads : LoadCacheDone(l)
  \/ \E l \in loads : LoadDbDone(l)
  \/ \E l \in loads : LoadSetexDone(l)
  \/ \E o \in readOps : \E i \in o.todo : ApplyRead(o, i)

SpecHist == InitHist /\ [][NextHist]_vars

(***************************************************************************)
(* SpecFetch: u2 sends to room r1 while u1 loads the history of r1         *)
(***************************************************************************)
FetchMaxSends == 2
FetchMaxTicks == 1

NextFetch ==
  \/ /\ nextReq < FetchMaxSends
     /\ chatReqs = {}
     /\ ChatMessage(2, "r1", <<"hi">>, "text", NoFile, NoFile)
  \/ \E r \in chatReqs : RateIncrDone(r, FALSE)
  \/ \E r \in chatReqs : ChatSaveDone(r, TRUE)
  \/ \E before \in BeforeInputs(1) :
        /\ loads = {}
        /\ nextLoad < HistMaxLoads
        /\ LoadStart(1, "r1", before, BATCH_SIZE)
  \/ \E l \in loads : LoadCacheDone(l)
  \/ \E l \in loads : LoadDbDone(l)
  \/ \E l \in loads : LoadSetexDone(l)
  \/ \E o \in readOps : \E i \in o.todo : ApplyRead(o, i)
  \/ Tick(HIST_CACHE_TTL, HIST_CACHE_TTL * FetchMaxTicks)

SpecFetch == InitSend /\ [][NextFetch]_vars

(***************************************************************************)
(* SpecRead: u1 marks messages of r1 as read, several times and while a    *)
(* history load of u1 marks them too                                       *)
(***************************************************************************)
ReadMaxOps == 2

\* messages 1 and 2 are in r1 (u2 has read 2), message 3 is in r2
InitRead ==
  /\ now = ScenarioN + 1
  /\ messages = <<Stored(1, "r1", FALSE, 1),
                  [Stored(2, "r1", FALSE, 2) EXCEPT !.readers = <<[userId |-> "u2", readAt |-> 3]>>],
                  Stored(3, "r2", FALSE, 3)>>
  /\ InitJoined

\* messageIds: an id twice, ids of both rooms, all of r1
ReadIdLists == {<<1, 1>>, <<2, 3>>, <<1, 2>>}

NextRead ==
  \/ \E ids \in ReadIdLists :
        /\ nextOp < ReadMaxOps
        /\ MarkMessagesAsRead(1, "r1", ids)
  \/ /\ nextLoad = 0
     /\ LoadStart(1, "r1", NoBefore, BATCH_SIZE)
  \/ \E l \in loads : LoadCacheDone(l)
  \/ \E l \in loads : LoadDbDone(l)
  \/ \E l \in loads : LoadSetexDone(l)
  \/ \E o \in readOps : \E i \in o.todo : ApplyRead(o, i)
  \/ \E o \in readOps : MarkReadDone(o)
  \/ \E o \in readOps : MarkReadFail(o)

SpecRead == InitRead /\ [][NextRead]_vars

(***************************************************************************)
(* messageReaction.  A message's reactions are the set of its              *)
(* (emoji, user) pairs.                                                    *)
(***************************************************************************)
Pair(e, u) == [emoji |-> e, user |-> u]

\* Message.prototype.addReaction: the user joins reactions[emoji]
addReaction(reactions, e, u) == reactions \cup {Pair(e, u)}

\* Message.prototype.removeReaction: the user leaves reactions[emoji]
removeReaction(reactions, e, u) == reactions \ {Pair(e, u)}

React_Swapped(reactions, type, e, u) ==
  IF type = "add" THEN removeReaction(reactions, e, u)
  ELSE IF type = "remove" THEN addReaction(reactions, e, u)
  ELSE reactions

\* if (type === 'add') addReaction else if (type === 'remove') removeReaction
React(reactions, type, e, u) ==
  IF type = "add" THEN addReaction(reactions, e, u)
  ELSE IF type = "remove" THEN removeReaction(reactions, e, u)
  ELSE reactions

ReactDone(r, ok) ==
  Append(reactLog, [user |-> sockUser[r.s], m |-> r.m, emoji |-> r.emoji, type |-> r.type,
                    ok |-> ok])

\* socket.on('messageReaction') up to Message.findById(messageId)
MessageReaction(s, messageId, reaction, type) ==
  /\ sockSt[s] = "connected"
  /\ last' = [a |-> "MessageReaction", s |-> s]
  /\ reactReqs' = reactReqs \cup
       {[id |-> Len(reactLog) + Cardinality(reactReqs) + 1, s |-> s, m |-> messageId,
         emoji |-> reaction, type |-> type, stage |-> "find", doc |-> {}]}
  /\ UNCHANGED <<now, sockSt, sockUser, sockRooms, recv, closeInfo, connectedUsers,
                 userRooms, dupTimers, dupLog, messageQueues, rateLimitCache,
                 streamingSessions, leaveJobs, nextCleanup, messageLoadRetries, rateVars,
                 messages, histVars, readVars, reactLog, aiVars, roomLog, extVars>>

\* findById returns: no message is an error to the sender; otherwise the loaded
\* document is changed and its save is awaited
ReactFound(r) ==
  /\ r \in reactReqs /\ r.stage = "find"
  /\ last' = [a |-> "ReactFound", s |-> r.s]
  /\ IF r.m \notin 1..Len(messages)
     THEN /\ recv' = Emit(r.s, [ev |-> "error", code |-> "undefined",
                                message |-> "message not found"])
          /\ reactReqs' = reactReqs \ {r}
          /\ reactLog' = ReactDone(r, FALSE)
     ELSE /\ reactReqs' = (reactReqs \ {r}) \cup
               {[r EXCEPT !.stage = "save",
                          !.doc = React(messages[r.m].reactions, r.type, r.emoji,
                                        sockUser[r.s])]}
          /\ UNCHANGED <<recv, reactLog>>
  /\ UNCHANGED <<now, sockSt, sockUser, sockRooms, closeInfo, connectedUsers,
                 userRooms, dupTimers, dupLog, messageQueues, rateLimitCache,
                 streamingSessions, leaveJobs, nextCleanup, messageLoadRetries, rateVars,
                 messages, histVars, readVars, aiVars, roomLog, extVars>>

\* the save returns: io.to(message.room).emit('messageReactionUpdate', ...)
ReactSaveDone(r) ==
  LET e == [ev |-> "messageReactionUpdate", messageId |-> r.m, reactions |-> r.doc] IN
  /\ r \in reactReqs /\ r.stage = "save"
  /\ last' = [a |-> "ReactSaveDone", s |-> r.s, m |-> r.m,
              pair |-> Pair(r.emoji, sockUser[r.s])]
  /\ messages' = [messages EXCEPT ![r.m].reactions = r.doc]
  /\ reactReqs' = reactReqs \ {r}
  /\ reactLog' = ReactDone(r, TRUE)
  /\ recv' = EmitRoomTo(recv, messages[r.m].room, e)
  /\ roomLog' = RoomLogged(roomLog, messages[r.m].room, e)
  /\ UNCHANGED <<now, sockSt, sockUser, sockRooms, closeInfo, connectedUsers,
                 userRooms, dupTimers, dupLog, messageQueues, rateLimitCache,
                 streamingSessions, leaveJobs, nextCleanup, messageLoadRetries, rateVars,
                 histVars, readVars, aiVars, extVars>>

(***************************************************************************)
(* SpecReact: u1 and u2 react to message 1 of r1, one reaction after the   *)
(* other                                                                   *)
(***************************************************************************)
ReactMaxOps == 2
Emojis == {"e1", "e2"}
ReactTypes == {"add", "remove"}

InitReact ==
  /\ now = ScenarioN + 1
  /\ \E rs \in SUBSET {Pair(e, u) : e \in Emojis, u \in Users} :
        messages = <<[Stored(1, "r1", FALSE, 1) EXCEPT !.reactions = rs]>>
  /\ InitJoined

NextReact ==
  \/ \E s \in {1, 2} : \E m \in {1, 2} : \E e \in Emojis : \E type \in ReactTypes :
        /\ reactReqs = {}
        /\ Len(reactLog) < ReactMaxOps
        /\ MessageReaction(s, m, e, type)
  \/ \E r \in reactReqs : ReactFound(r)
  \/ \E r \in reactReqs : ReactSaveDone(r)

SpecReact == InitReact /\ [][NextReact]_vars

(***************************************************************************)
(* SpecReactRace: u1 and u2 react to message 1 of r1; a handler does not   *)
(* wait for the handler of the other user                                  *)
(***************************************************************************)
RaceMaxOps == 2

NextReactRace ==
  \/ \E s \in {1, 2} : \E e \in Emojis : \E type \in ReactTypes :
        /\ Len(reactLog) + Cardinality(reactReqs) < RaceMaxOps
        /\ MessageReaction(s, 1, e, type)
  \/ \E r \in reactReqs : ReactFound(r)
  \/ \E r \in reactReqs : ReactSaveDone(r)

SpecReactRace == InitReact /\ [][NextReactRace]_vars

(***************************************************************************)
(* AI streaming: the callbacks that handleAIResponse gives to               *)
(* aiService.generateResponse                                              *)
(***************************************************************************)
AiMaxChunks == 2

\* aiService.generateResponse: chunks, then either the completion or an error
Streaming(j) == j \in aiJobs /\ j.stage = "stream"

\* onChunk: a chunk of a session that is gone is dropped
AIChunk(j) ==
  LET chunk == [job |-> j.id, n |-> j.sent + 1]
      has == LMHas(streamingSessions, j.sid)
      session == LMGet(streamingSessions, j.sid)
      content == Append(session.content, chunk)
      e == [ev |-> "aiMessageChunk", sid |-> j.sid, chunk |-> chunk, fullContent |-> content]
  IN
  /\ Streaming(j)
  /\ j.sent < AiMaxChunks
  /\ last' = [a |-> "AIChunk", s |-> NoSock]
  /\ aiJobs' = (aiJobs \ {j}) \cup {[j EXCEPT !.sent = @ + 1]}
  /\ IF has
     THEN /\ streamingSessions' =
               MapSet(streamingSessions, j.sid,
                      [session EXCEPT !.content = content, !.lastActivity = now])
          /\ recv' = EmitRoomTo(recv, j.room, e)
          /\ roomLog' = RoomLogged(roomLog, j.room, e)
     ELSE UNCHANGED <<streamingSessions, recv, roomLog>>
  /\ UNCHANGED <<now, sockSt, sockUser, sockRooms, closeInfo, connectedUsers,
                 userRooms, dupTimers, dupLog, messageQueues, rateLimitCache,
                 leaveJobs, nextCleanup, messageLoadRetries, rateVars,
                 messages, histVars, readVars, reactVars, nextJob, extVars>>

\* onComplete up to aiMessage.save()
AIComplete(j) ==
  /\ Streaming(j)
  /\ last' = [a |-> "AIComplete", s |-> NoSock]
  /\ aiJobs' = (aiJobs \ {j}) \cup {[j EXCEPT !.stage = "save", !.ts = now]}
  /\ UNCHANGED <<now, sockSt, sockUser, sockRooms, recv, closeInfo, connectedUsers,
                 userRooms, dupTimers, dupLog, messageQueues, rateLimitCache,
                 streamingSessions, leaveJobs, nextCleanup, messageLoadRetries, rateVars,
                 messages, histVars, readVars, reactVars, nextJob, roomLog, extVars>>

AiMessage(j) ==
  [id |-> Len(messages) + 1, room |-> j.room, sender |-> NoUser,
   content |-> [n \in 1..j.sent |-> [job |-> j.id, n |-> n]], type |-> "ai",
   file |-> NoFile, ts |-> j.ts, deleted |-> FALSE, readers |-> <<>>, reactions |-> {},
   aiType |-> j.aiType]

\* onComplete after the save: aiMessageComplete and the session is deleted;
\* a failed save only deletes the session
AISaveDone(j, ok) ==
  LET e == [ev |-> "aiMessageComplete", sid |-> j.sid, id |-> Len(messages) + 1] IN
  /\ j \in aiJobs /\ j.stage = "save"
  /\ last' = [a |-> "AISaveDone", s |-> NoSock]
  /\ aiJobs' = aiJobs \ {j}
  /\ streamingSessions' = LMDelete(streamingSessions, j.sid)
  /\ IF ok
     THEN /\ messages' = Append(messages, AiMessage(j))
          /\ recv' = EmitRoomTo(recv, j.room, e)
          /\ roomLog' = RoomLogged(roomLog, j.room, e)
     ELSE UNCHANGED <<messages, recv, roomLog>>
  /\ UNCHANGED <<now, sockSt, sockUser, sockRooms, closeInfo, connectedUsers,
                 userRooms, dupTimers, dupLog, messageQueues, rateLimitCache,
                 leaveJobs, nextCleanup, messageLoadRetries, rateVars,
                 histVars, readVars, reactVars, nextJob, extVars>>

\* onError: aiMessageError and the session is deleted
AIError(j) ==
  LET e == [ev |-> "aiMessageError", sid |-> j.sid] IN
  /\ Streaming(j)
  /\ last' = [a |-> "AIError", s |-> NoSock]
  /\ aiJobs' = aiJobs \ {j}
  /\ streamingSessions' = LMDelete(streamingSessions, j.sid)
  /\ recv' = EmitRoomTo(recv, j.room, e)
  /\ roomLog' = RoomLogged(roomLog, j.room, e)
  /\ UNCHANGED <<now, sockSt, sockUser, sockRooms, closeInfo, connectedUsers,
                 userRooms, dupTimers, dupLog, messageQueues, rateLimitCache,
                 leaveJobs, nextCleanup, messageLoadRetries, rateVars,
                 messages, histVars, readVars, reactVars, nextJob, extVars>>

\* the call of aiService.generateResponse rejects: the error is logged
AICallFail(j) ==
  /\ Streaming(j)
  /\ last' = [a |-> "AICallFail", s |-> NoSock]
  /\ aiJobs' = aiJobs \ {j}
  /\ UNCHANGED <<now, sockSt, sockUser, sockRooms, recv, closeInfo, connectedUsers,
                 userRooms, dupTimers, dupLog, messageQueues, rateLimitCache,
                 streamingSessions, leaveJobs, nextCleanup, messageLoadRetries, rateVars,
                 messages, histVars, readVars, reactVars, nextJob, roomLog, extVars>>

(***************************************************************************)
(* SpecAI: u1 sends messages that mention the AI models to room r1         *)
(***************************************************************************)
AiMaxSends == 1
AiMaxTicks == 1

AiContents == {<<"hi">>, <<"@wayneAI", "hi">>, <<"@wayneAI", "@wayneAI">>,
               <<"@wayneAI", "@consultingAI">>}

NextAI ==
  \/ \E content \in AiContents :
        /\ nextReq < AiMaxSends
        /\ chatReqs = {} /\ aiJobs = {}
        /\ ChatMessage(1, "r1", content, "text", NoFile, NoFile)
  \/ \E r \in chatReqs : RateIncrDone(r, FALSE)
  \/ \E r \in chatReqs : ChatSaveDone(r, TRUE)
  \/ \E j \in aiJobs : AIChunk(j)
  \/ \E j \in aiJobs : AIComplete(j)
  \/ \E j \in aiJobs : \E ok \in BOOLEAN : AISaveDone(j, ok)
  \/ \E j \in aiJobs : AIError(j)
  \/ \E j \in aiJobs : AICallFail(j)
  \/ Tick(RATE_LIMIT_WINDOW, RATE_LIMIT_WINDOW * AiMaxTicks)

SpecAI == InitSend /\ [][NextAI]_vars

(***************************************************************************)
(* SpecJanitor: u1 sends messages that mention an AI model to r1, the      *)
(* answers stall, u2 goes away, and the janitor runs for more than 30 min  *)
(***************************************************************************)
JanMaxSends == 2
JanMaxTicks == 3
JanMaxChunks == 1

\* time passes in steps of fifteen minutes
JanTickMs == 15 * 60 * 1000

NextJanitor ==
  \/ /\ nextReq < JanMaxSends
     /\ chatReqs = {}
     /\ ChatMessage(1, "r1", <<"@wayneAI", "hi">>, "text", NoFile, NoFile)
  \/ \E r \in chatReqs : RateIncrDone(r, FALSE)
  \/ \E r \in chatReqs : ChatSaveDone(r, TRUE)
  \/ \E j \in aiJobs : j.sent < JanMaxChunks /\ AIChunk(j)
  \/ ClientDisconnect(2, "client namespace disconnect")
  \/ now < nextCleanup /\ Tick(JanTickMs, JanTickMs * JanMaxTicks)
  \/ \E h \in BOOLEAN : Janitor(h)

SpecJanitor == InitSend /\ [][NextJanitor]_vars

(***************************************************************************)
(* SpecChat: u1 sends chatMessage events with and without room, content,   *)
(* type and file to r1; the save may fail                                  *)
(***************************************************************************)
ChatMaxSends == 1
ChatRooms == {"r1", ""}
ChatContents == {<<>>, <<"hi">>, <<"@wayneAI", "hi">>}
ChatTypes == {NoType, "text", "file"}
ChatFiles == {NoFile, "f1"}

NextChat ==
  \/ \E room \in ChatRooms, content \in ChatContents, type \in ChatTypes,
        file \in ChatFiles, fileData \in ChatFiles :
        /\ nextReq < ChatMaxSends
        /\ chatReqs = {} /\ aiJobs = {}
        /\ ChatMessage(1, room, content, type, file, fileData)
  \/ \E r \in chatReqs : RateIncrDone(r, FALSE)
  \/ \E r \in chatReqs : \E ok \in BOOLEAN : ChatSaveDone(r, ok)
  \/ \E j \in aiJobs : AIChunk(j)
  \/ \E j \in aiJobs : AIComplete(j)
  \/ \E j \in aiJobs : \E ok \in BOOLEAN : AISaveDone(j, ok)
  \/ \E j \in aiJobs : AIError(j)
  \/ \E j \in aiJobs : AICallFail(j)

SpecChat == InitSend /\ [][NextChat]_vars

(***************************************************************************)
(* SpecOrder: u1 and u2 send text messages to room r1; a handler does not  *)
(* wait for the handler of the event before it                             *)
(***************************************************************************)
OrderMaxSends == 3
OrderContents == {<<"a">>, <<"b">>}

NextOrder ==
  \/ \E s \in {1, 2}, content \in OrderContents :
        /\ nextReq < OrderMaxSends
        /\ ChatMessage(s, "r1", content, "text", NoFile, NoFile)
  \/ \E r \in chatReqs : RateIncrDone(r, FALSE)
  \/ \E r \in chatReqs : \E ok \in BOOLEAN : ChatSaveDone(r, ok)

SpecOrder == InitSend /\ [][NextOrder]_vars

(***************************************************************************)
(* createMessageQueue: the in-memory message queue of the cluster service. *)
(* A queued message is modelled by its enqueue number.                     *)
(***************************************************************************)
\* queue.unshift(...batch)
PutBack(queue, batch) == batch \o queue

\* messageQueue.enqueue: a full queue loses its oldest message first
Enqueue(roomId) ==
  LET queue == queues[roomId] IN
  /\ last' = [a |-> "Enqueue", s |-> NoSock, room |-> roomId]
  /\ nextMsg' = nextMsg + 1
  /\ queues' = [queues EXCEPT ![roomId] =
                  Append(IF Len(queue) >= maxQueueSize THEN Tail(queue) ELSE queue,
                         nextMsg + 1)]
  /\ UNCHANGED <<now, sockSt, sockUser, sockRooms, recv, closeInfo, connectedUsers,
                 userRooms, dupTimers, dupLog, messageQueues, rateLimitCache,
                 streamingSessions, leaveJobs, nextCleanup, messageLoadRetries, rateVars,
                 messages, histVars, readVars, reactVars, aiVars, roomLog, mapVars,
                 fetchVars, roomVars, joinVars, processing, maxQueueSize, batchSize,
                 batches>>

\* messageQueue.processBatch up to saveBatchMessages: nothing happens while a
\* batch of the room is being saved or when the queue is empty
ProcessBatch(roomId) ==
  LET queue == queues[roomId]
      n == IF Len(queue) < batchSize THEN Len(queue) ELSE batchSize
  IN
  /\ last' = [a |-> "ProcessBatch", s |-> NoSock, room |-> roomId]
  /\ IF roomId \in processing \/ queue = <<>>
     THEN UNCHANGED <<queues, processing, batches>>
     ELSE /\ processing' = processing \cup {roomId}
          /\ batches' = batches \cup {[room |-> roomId, batch |-> SubSeq(queue, 1, n)]}
          /\ queues' = [queues EXCEPT ![roomId] = SubSeq(queue, n + 1, Len(queue))]
  /\ UNCHANGED <<now, sockSt, sockUser, sockRooms, recv, closeInfo, connectedUsers,
                 userRooms, dupTimers, dupLog, messageQueues, rateLimitCache,
                 streamingSessions, leaveJobs, nextCleanup, messageLoadRetries, rateVars,
                 messages, histVars, readVars, reactVars, aiVars, roomLog, mapVars,
                 fetchVars, roomVars, joinVars, maxQueueSize, batchSize, nextMsg>>

\* saveBatchMessages returns or throws: a failed batch goes back to the front
\* of the queue; either way the room is no longer processing
BatchSaveDone(b, ok) ==
  /\ b \in batches
  /\ last' = [a |-> "BatchSaveDone", s |-> NoSock, room |-> b.room, ok |-> ok]
  /\ batches' = batches \ {b}
  /\ processing' = processing \ {b.room}
  /\ queues' = IF ok THEN queues
               ELSE [queues EXCEPT ![b.room] = PutBack(@, b.batch)]
  /\ UNCHANGED <<now, sockSt, sockUser, sockRooms, recv, closeInfo, connectedUsers,
                 userRooms, dupTimers, dupLog, messageQueues, rateLimitCache,
                 streamingSessions, leaveJobs, nextCleanup, messageLoadRetries, rateVars,
                 messages, histVars, readVars, reactVars, aiVars, roomLog, mapVars,
                 fetchVars, roomVars, joinVars, maxQueueSize, batchSize, nextMsg>>

(***************************************************************************)
(* SpecBatch: messages are enqueued for r1 and r2 while batches are taken  *)
(* and saved, with saves that fail                                         *)
(***************************************************************************)
BatchMaxSize == 3
BatchMaxBatch == 2
BatchMaxMsgs == 5

InitBatch ==
  /\ InitServer
  /\ InitWork
  /\ InitFetch
  /\ participants = [r \in Rooms |-> {}]
  /\ lm = <<>>
  /\ lmMax = LimitedMapDefaultMax
  /\ maxQueueSize \in 2..BatchMaxSize
  /\ batchSize \in 1..BatchMaxBatch

NextBatch ==
  \/ \E r \in Rooms : nextMsg < BatchMaxMsgs /\ Enqueue(r)
  \/ \E r \in Rooms : last.a # "ProcessBatch" /\ ProcessBatch(r)
  \/ \E b \in batches : \E ok \in BOOLEAN : BatchSaveDone(b, ok)

SpecBatch == InitBatch /\ [][NextBatch]_vars

(***************************************************************************)
(* SpecMap: one LimitedMap of a small maxSize under set, get, delete and   *)
(* clear with any keys                                                     *)
(***************************************************************************)
MapMaxSize == 3
MapMaxKeys == 4

MapKeys == 1..MapMaxKeys

MapValues == {"a", "b"}

InitMap ==
  /\ InitServer
  /\ InitWork
  /\ InitFetch
  /\ participants = [r \in Rooms |-> {}]
  /\ lm = <<>>
  /\ lmMax \in 1..MapMaxSize
  /\ maxQueueSize = MaxQueueSizeDefault
  /\ batchSize = BatchSizeDefault

\* one call of a method of the map; nothing else runs
MapOp(name, k, entries) ==
  /\ lm' = entries
  /\ last' = [a |-> name, s |-> NoSock, k |-> k, size |-> Len(lm), had |-> LMHas(lm, k)]
  /\ UNCHANGED <<now, sockSt, sockUser, sockRooms, recv, closeInfo, connectedUsers,
                 userRooms, dupTimers, dupLog, messageQueues, rateLimitCache,
                 streamingSessions, leaveJobs, nextCleanup, messageLoadRetries, rateVars,
                 messages, histVars, readVars, reactVars, aiVars, roomLog, lmMax,
                 fetchVars, roomVars, joinVars, clusterVars>>

NextMap ==
  \/ \E k \in MapKeys : \E v \in MapValues : MapOp("set", k, LMSet(lm, lmMax, k, v))
  \/ \E k \in MapKeys : MapOp("get", k, lm)
  \/ \E k \in MapKeys : MapOp("delete", k, LMDelete(lm, k))
  \/ MapOp("clear", 0, <<>>)

SpecMap == InitMap /\ [][NextMap]_vars

(***************************************************************************)
(* SpecThree: u1, u2 and u3 are in room r1 and send one text message each, *)
(* in any order, each after the one before has been delivered              *)
(***************************************************************************)
ThreeMaxTicks == 1

ThreeUser(s) == IF s = 1 THEN "u1" ELSE IF s = 2 THEN "u2" ELSE "u3"

ThreeContent(s) == IF s = 1 THEN <<"hi">> ELSE IF s = 2 THEN <<"hello">> ELSE <<"hey">>

InitThree ==
  /\ now = 0
  /\ messages = <<>>
  /\ sockSt = [s \in Sockets |-> IF s \in {1, 2, 3} THEN "connected" ELSE "new"]
  /\ sockUser = [s \in Sockets |-> IF s \in {1, 2, 3} THEN ThreeUser(s) ELSE NoUser]
  /\ sockRooms = [s \in Sockets |-> IF s \in {1, 2, 3} THEN {"r1"} ELSE {}]
  /\ recv = [s \in Sockets |-> <<>>]
  /\ closeInfo = [s \in Sockets |-> [reason |-> "none", at |-> 0]]
  /\ connectedUsers = <<[k |-> "u1", v |-> 1], [k |-> "u2", v |-> 2], [k |-> "u3", v |-> 3]>>
  /\ userRooms = <<[k |-> "u1", v |-> "r1"], [k |-> "u2", v |-> "r1"],
                   [k |-> "u3", v |-> "r1"]>>
  /\ dupTimers = {}
  /\ dupLog = {}
  /\ messageQueues = <<>>
  /\ rateLimitCache = <<>>
  /\ streamingSessions = <<>>
  /\ leaveJobs = {}
  /\ last = [a |-> "init", s |-> NoSock]
  /\ nextCleanup = CLEANUP_INTERVAL
  /\ messageLoadRetries = <<>>
  /\ redisRate = <<>>
  /\ useMock = FALSE
  /\ chatReqs = {}
  /\ nextReq = 0
  /\ passed = <<>>
  /\ InitIdle

\* the user of socket s has sent its message
HasSent(s) == \E i \in 1..Len(messages) : messages[i].sender = sockUser[s]

NextThree ==
  \/ \E s \in {1, 2, 3} :
        /\ chatReqs = {}
        /\ ~HasSent(s)
        /\ ChatMessage(s, "r1", ThreeContent(s), "text", NoFile, NoFile)
  \/ \E r \in chatReqs : \E fails \in BOOLEAN : RateIncrDone(r, fails)
  \/ \E r \in chatReqs : ChatSaveDone(r, TRUE)
  \/ Tick(RATE_LIMIT_WINDOW, RATE_LIMIT_WINDOW * ThreeMaxTicks)

SpecThree == InitThree /\ [][NextThree]_vars

(***************************************************************************)
(* fetchPreviousMessages: the guarded, retried history load                *)
(***************************************************************************)
ACCESS_CACHE_TTL == 300000

AccessKey(room, user) == [room |-> room, user |-> user]

AccessCached(key) == LMHas(accessCache, key) /\ now < LMGet(accessCache, key).expires

\* the handler up to its first await: a request whose key is in messageQueues
\* returns, and the finally of the handler runs for it as for every other
FetchPreviousMessages(s, roomId, before) ==
  LET u == sockUser[s]
      id == nextFetch + 1
      key == QueueKey(roomId, u, before)
      dropped == LMHas(messageQueues, key)
      f == [id |-> id, s |-> s, user |-> u, room |-> roomId, before |-> before,
            stage |-> "access", retryCount |-> 0, wake |-> 0]
  IN
  /\ sockSt[s] = "connected"
  /\ nextFetch' = id
  /\ fetchLog' = Append(fetchLog, [s |-> s, key |-> key, dropped |-> dropped,
                                   attempts |-> <<>>, waits |-> <<>>, events |-> <<>>])
  /\ IF dropped
     THEN /\ queueTimers' = queueTimers \cup {QueueTimer(key)}
          /\ UNCHANGED fetchReqs
     ELSE /\ fetchReqs' = fetchReqs \cup {f}
          /\ UNCHANGED queueTimers
  /\ last' = [a |-> "FetchPreviousMessages", s |-> s, dropped |-> dropped]
  /\ UNCHANGED <<now, sockSt, sockUser, sockRooms, recv, closeInfo, connectedUsers,
                 userRooms, dupTimers, dupLog, messageQueues, rateLimitCache,
                 streamingSessions, leaveJobs, nextCleanup, messageLoadRetries, rateVars,
                 messages, histVars, readVars, reactVars, aiVars, roomLog, mapVars, clusterVars,
                 roomVars, joinVars>>

\* messageQueues.set(queueKey, Date.now()); socket.emit('messageLoadStart');
\* loadMessagesWithRetry(socket, roomId, before) calls loadMessages
BeginLoad(f) ==
  /\ messageQueues' = LMSet(messageQueues, messageQueuesMax, FetchKey(f), now)
  /\ recv' = Emit(f.s, [ev |-> "messageLoadStart"])
  /\ nextLoad' = nextLoad + 1
  /\ loads' = loads \cup {NewLoad(nextLoad + 1, f.s, f.room, f.before, BATCH_SIZE, FetchCaller(f.id))}
  /\ fetchReqs' = (fetchReqs \ {f}) \cup {[f EXCEPT !.stage = "load"]}
  /\ fetchLog' = [fetchLog EXCEPT ![f.id].events = Append(@, "messageLoadStart"),
                                  ![f.id].attempts = Append(@, now)]

\* redisClient.get(roomCacheKey) answers
FetchAccessGet(f) ==
  LET hasAccess == AccessCached(AccessKey(f.room, f.user)) IN
  /\ f \in fetchReqs /\ f.stage = "access"
  /\ last' = [a |-> "FetchAccessGet", s |-> f.s, hit |-> hasAccess]
  /\ IF hasAccess
     THEN BeginLoad(f)
     ELSE /\ fetchReqs' = (fetchReqs \ {f}) \cup {[f EXCEPT !.stage = "room"]}
          /\ UNCHANGED <<messageQueues, recv, nextLoad, loads, fetchLog>>
  /\ UNCHANGED <<now, sockSt, sockUser, sockRooms, closeInfo, connectedUsers,
                 userRooms, dupTimers, dupLog, rateLimitCache, streamingSessions,
                 leaveJobs, nextCleanup, messageLoadRetries, rateVars, messages, histCache,
                 readVars, reactVars, aiVars, roomLog, mapVars, clusterVars, nextFetch, queueTimers,
                 roomVars, joinVars>>

\* Room.findOne({_id: roomId, participants: socket.user.id}) answers
FetchAccessDb(f) ==
  LET room == f.room \in Rooms /\ f.user \in participants[f.room] IN
  /\ f \in fetchReqs /\ f.stage = "room"
  /\ last' = [a |-> "FetchAccessDb", s |-> f.s, room |-> room]
  /\ IF room
     THEN /\ fetchReqs' = (fetchReqs \ {f}) \cup {[f EXCEPT !.stage = "setex"]}
          /\ UNCHANGED <<recv, queueTimers, fetchLog>>
     ELSE FetchFail(f, "no access to the room")
  /\ UNCHANGED <<now, sockSt, sockUser, sockRooms, closeInfo, connectedUsers,
                 userRooms, dupTimers, dupLog, messageQueues, rateLimitCache,
                 streamingSessions, leaveJobs, nextCleanup, messageLoadRetries, rateVars,
                 messages, histVars, readVars, reactVars, aiVars, roomLog, mapVars, clusterVars,
                 nextFetch, roomVars, joinVars>>

\* redisClient.setex(roomCacheKey, 300, 'true') returns
FetchAccessSetex(f) ==
  /\ f \in fetchReqs /\ f.stage = "setex"
  /\ last' = [a |-> "FetchAccessSetex", s |-> f.s]
  /\ accessCache' = MapSet(accessCache, AccessKey(f.room, f.user),
                           [expires |-> now + ACCESS_CACHE_TTL])
  /\ BeginLoad(f)
  /\ UNCHANGED <<now, sockSt, sockUser, sockRooms, closeInfo, connectedUsers,
                 userRooms, dupTimers, dupLog, rateLimitCache, streamingSessions,
                 leaveJobs, nextCleanup, messageLoadRetries, rateVars, messages, histCache,
                 readVars, reactVars, aiVars, roomLog, mapVars, clusterVars, nextFetch, queueTimers,
                 participants, userCache, joinVars>>

\* the Redis server fails redisClient.get(roomCacheKey): the mock answers null
\* and the room is looked up
FetchAccessGetFail(f) ==
  /\ f \in fetchReqs /\ f.stage = "access"
  /\ ~useMock
  /\ last' = [a |-> "FetchAccessGetFail", s |-> f.s,
              cached |-> AccessCached(AccessKey(f.room, f.user))]
  /\ useMock' = TRUE
  /\ histCache' = MockStore
  /\ accessCache' = MockStore
  /\ userCache' = MockStore
  /\ fetchReqs' = (fetchReqs \ {f}) \cup {[f EXCEPT !.stage = "room"]}
  /\ UNCHANGED <<now, sockSt, sockUser, sockRooms, recv, closeInfo, connectedUsers,
                 userRooms, dupTimers, dupLog, messageQueues, rateLimitCache,
                 streamingSessions, leaveJobs, nextCleanup, messageLoadRetries, redisRate,
                 chatReqs, nextReq, passed, messages, loads, nextLoad, readVars, reactVars,
                 aiVars, roomLog, mapVars, clusterVars, nextFetch, queueTimers, fetchLog, participants,
                 joinVars>>

\* the Redis server fails redisClient.setex(roomCacheKey, 300, 'true'): the
\* entry goes to the mock and the load begins
FetchAccessSetexFail(f) ==
  /\ f \in fetchReqs /\ f.stage = "setex"
  /\ ~useMock
  /\ last' = [a |-> "FetchAccessSetexFail", s |-> f.s]
  /\ useMock' = TRUE
  /\ histCache' = MockStore
  /\ accessCache' = MapSet(MockStore, AccessKey(f.room, f.user),
                           [expires |-> now + ACCESS_CACHE_TTL])
  /\ userCache' = MockStore
  /\ BeginLoad(f)
  /\ UNCHANGED <<now, sockSt, sockUser, sockRooms, closeInfo, connectedUsers,
                 userRooms, dupTimers, dupLog, rateLimitCache, streamingSessions,
                 leaveJobs, nextCleanup, messageLoadRetries, redisRate, chatReqs, nextReq,
                 passed, messages, readVars, reactVars, aiVars, roomLog, mapVars, clusterVars, nextFetch,
                 queueTimers, participants, joinVars>>

\* the wait before a retry is over: loadMessagesWithRetry(..., retryCount + 1)
RetryFire(f) ==
  /\ f \in fetchReqs /\ f.stage = "wait"
  /\ now >= f.wake
  /\ last' = [a |-> "RetryFire", s |-> f.s]
  /\ nextLoad' = nextLoad + 1
  /\ loads' = loads \cup {NewLoad(nextLoad + 1, f.s, f.room, f.before, BATCH_SIZE, FetchCaller(f.id))}
  /\ fetchReqs' = (fetchReqs \ {f}) \cup
                    {[f EXCEPT !.stage = "load", !.retryCount = @ + 1]}
  /\ fetchLog' = [fetchLog EXCEPT ![f.id].attempts = Append(@, now)]
  /\ UNCHANGED <<now, sockSt, sockUser, sockRooms, recv, closeInfo, connectedUsers,
                 userRooms, dupTimers, dupLog, messageQueues, rateLimitCache,
                 streamingSessions, leaveJobs, nextCleanup, messageLoadRetries, rateVars,
                 messages, histCache, readVars, reactVars, aiVars, roomLog, mapVars, clusterVars,
                 nextFetch, queueTimers, roomVars, joinVars>>

\* the timer of a finally expires: messageQueues.delete(queueKey)
QueueTimerFire(t) ==
  /\ t \in queueTimers
  /\ now >= t.at
  /\ last' = [a |-> "QueueTimerFire", s |-> NoSock, key |-> t.key]
  /\ queueTimers' = queueTimers \ {t}
  /\ messageQueues' = LMDelete(messageQueues, t.key)
  /\ UNCHANGED <<now, sockSt, sockUser, sockRooms, recv, closeInfo, connectedUsers,
                 userRooms, dupTimers, dupLog, rateLimitCache, streamingSessions,
                 leaveJobs, nextCleanup, messageLoadRetries, rateVars, messages, histVars,
                 readVars, reactVars, aiVars, roomLog, mapVars, clusterVars, fetchReqs, nextFetch,
                 fetchLog, roomVars, joinVars>>

\* the times at which a pending timer expires
Deadlines ==
  {t.deadline : t \in dupTimers}
    \cup {t.at : t \in queueTimers}
    \cup {f.wake : f \in {x \in fetchReqs : x.stage = "wait"}}
    \cup {l.deadline : l \in {x \in loads : x.stage \in {"cache", "db"}}}

\* time passes, up to the next timer
TickTimers(d, maxNow) ==
  /\ now < maxNow
  /\ \A t \in Deadlines : t > now
  /\ now' = Min({now + d} \cup Deadlines)
  /\ last' = [a |-> "TickTimers", s |-> NoSock]
  /\ UNCHANGED <<sockSt, sockUser, sockRooms, recv, closeInfo, connectedUsers, userRooms,
                 dupTimers, dupLog, messageQueues, rateLimitCache, streamingSessions,
                 leaveJobs, restVars>>

(***************************************************************************)
(* joinRoom, and the leave message of the disconnect handler               *)
(***************************************************************************)
\* a system message: `${name}님이 입장하였습니다.` / `${name}님이 연결이 끊어졌습니다.`
SystemMessage(room, what, user, ts) ==
  [id |-> Len(messages) + 1, room |-> room, sender |-> NoUser,
   content |-> <<what, user>>, type |-> "system", file |-> NoFile, ts |-> ts,
   deleted |-> FALSE, readers |-> <<>>, reactions |-> {}]

AlreadyIn_Never(s, roomId) == FALSE

\* currentRoom === roomId
AlreadyIn(s, roomId) == CurrentRoom(sockUser[s]) = roomId

\* the handler up to its first await: a user whose current room is roomId gets
\* joinRoomSuccess at once; another leaves its current room and
\* Room.findByIdAndUpdate is awaited
JoinRoom(s, roomId) ==
  LET u == sockUser[s]
      currentRoom == CurrentRoom(u)
      j == [id |-> nextJoin + 1, s |-> s, user |-> u, room |-> roomId,
            currentRoom |-> currentRoom, participants |-> {}]
  IN
  /\ sockSt[s] = "connected"
  /\ last' = [a |-> "JoinRoom", s |-> s, room |-> roomId, same |-> AlreadyIn(s, roomId)]
  /\ IF AlreadyIn(s, roomId)
     THEN /\ recv' = Emit(s, [ev |-> "joinRoomSuccess", roomId |-> roomId])
          /\ UNCHANGED <<sockRooms, userRooms, joinReqs>>
     ELSE /\ sockRooms' = [sockRooms EXCEPT ![s] = @ \ {currentRoom}]
          /\ userRooms' = LMDelete(userRooms, u)
          /\ recv' = IF currentRoom # NoRoom
                     THEN EmitOthers(s, currentRoom, [ev |-> "userLeft", userId |-> u])
                     ELSE recv
          /\ joinReqs' = joinReqs \cup {j}
  /\ nextJoin' = nextJoin + 1
  /\ UNCHANGED <<now, sockSt, sockUser, closeInfo, connectedUsers, dupTimers, dupLog,
                 messageQueues, rateLimitCache, streamingSessions, leaveJobs, nextCleanup,
                 messageLoadRetries, rateVars, messages, histVars, readVars, reactVars,
                 aiVars, roomLog, mapVars, clusterVars, fetchVars, roomVars, joinSaves>>

\* Room.findByIdAndUpdate(roomId, {$addToSet: {participants}}) answers: the
\* socket joins, the join message is saved in the background and loadMessages
\* is awaited; a closed socket is in no room
JoinUpdateDone(j) ==
  LET room == j.room \in Rooms
      populated == participants[j.room] \cup {j.user}
  IN
  /\ j \in joinReqs /\ j.participants = {}
  /\ last' = [a |-> "JoinUpdateDone", s |-> j.s, room |-> room]
  /\ IF room
     THEN /\ participants' = [participants EXCEPT ![j.room] = populated]
          /\ sockRooms' = IF sockSt[j.s] = "connected"
                          THEN [sockRooms EXCEPT ![j.s] = @ \cup {j.room}]
                          ELSE sockRooms
          /\ userRooms' = LMSet(userRooms, userRoomsMax, j.user, j.room)
          /\ joinSaves' = joinSaves \cup {[id |-> j.id, room |-> j.room, user |-> j.user,
                                           ts |-> now]}
          /\ nextLoad' = nextLoad + 1
          /\ loads' = loads \cup {NewLoad(nextLoad + 1, j.s, j.room, NoBefore, BATCH_SIZE,
                                          JoinCaller(j.id))}
          /\ joinReqs' = (joinReqs \ {j}) \cup {[j EXCEPT !.participants = populated]}
          /\ UNCHANGED recv
     ELSE /\ JoinFail(j, "room not found")
          /\ UNCHANGED <<participants, sockRooms, userRooms, joinSaves, nextLoad, loads>>
  /\ UNCHANGED <<now, sockSt, sockUser, closeInfo, connectedUsers, dupTimers, dupLog,
                 messageQueues, rateLimitCache, streamingSessions, leaveJobs, nextCleanup,
                 messageLoadRetries, rateVars, messages, histCache, readVars, reactVars,
                 aiVars, roomLog, mapVars, clusterVars, fetchVars, accessCache, userCache, nextJoin>>

\* joinMessage.save() resolves: io.to(roomId).emit('message', savedMessage)
JoinSaveDone(m) ==
  LET e == [ev |-> "message", id |-> Len(messages) + 1] IN
  /\ m \in joinSaves
  /\ last' = [a |-> "JoinSaveDone", s |-> NoSock]
  /\ joinSaves' = joinSaves \ {m}
  /\ messages' = Append(messages, SystemMessage(m.room, "joined", m.user, m.ts))
  /\ recv' = EmitRoomTo(recv, m.room, e)
  /\ roomLog' = RoomLogged(roomLog, m.room, e)
  /\ UNCHANGED <<now, sockSt, sockUser, sockRooms, closeInfo, connectedUsers, userRooms,
                 dupTimers, dupLog, messageQueues, rateLimitCache, streamingSessions,
                 leaveJobs, nextCleanup, messageLoadRetries, rateVars, histVars, readVars,
                 reactVars, aiVars, mapVars, clusterVars, fetchVars, roomVars, joinReqs, nextJoin>>

\* Promise.all([leaveMessage.save(), Room.findByIdAndUpdate($pull)]) resolves:
\* the message and the participants that are left go to the room
LeaveJobDone(j) ==
  LET e == [ev |-> "message", id |-> Len(messages) + 1]
      left == participants[j.room] \ {j.user}
      update == [ev |-> "participantsUpdate", participants |-> left]
  IN
  /\ j \in leaveJobs
  /\ last' = [a |-> "LeaveJobDone", s |-> NoSock, job |-> j]
  /\ leaveJobs' = leaveJobs \ {j}
  /\ messages' = Append(messages, SystemMessage(j.room, "disconnected", j.user, j.at))
  /\ participants' = [participants EXCEPT ![j.room] = left]
  /\ recv' = EmitRoomTo(EmitRoomTo(recv, j.room, e), j.room, update)
  /\ roomLog' = RoomLogged(RoomLogged(roomLog, j.room, e), j.room, update)
  /\ UNCHANGED <<now, sockSt, sockUser, sockRooms, closeInfo, connectedUsers, userRooms,
                 dupTimers, dupLog, messageQueues, rateLimitCache, streamingSessions,
                 nextCleanup, messageLoadRetries, rateVars, histVars, readVars,
                 reactVars, aiVars, mapVars, clusterVars, fetchVars, accessCache, userCache, joinVars>>

(***************************************************************************)
(* SpecQueue: u1 asks for the newest page of r1, which it has joined, and  *)
(* of r2, which it has not, up to three times; the database answers in     *)
(* time                                                                    *)
(***************************************************************************)
QueueMaxFetches == 3
QueueMaxTicks == 2
QueueRooms == {"r1", "r2"}

InitQueue ==
  /\ now = 0
  /\ messages = <<>>
  /\ InitJoined

NextQueue ==
  \/ \E room \in QueueRooms :
        /\ nextFetch < QueueMaxFetches
        /\ FetchPreviousMessages(1, room, NoBefore)
  \/ \E f \in fetchReqs : FetchAccessGet(f)
  \/ \E f \in fetchReqs : FetchAccessDb(f)
  \/ \E f \in fetchReqs : FetchAccessSetex(f)
  \/ \E l \in loads : LoadCacheDone(l)
  \/ \E l \in loads : LoadDbDone(l)
  \/ \E l \in loads : LoadSetexDone(l)
  \/ \E t \in queueTimers : QueueTimerFire(t)
  \/ TickTimers(LOAD_DELAY, LOAD_DELAY * QueueMaxTicks)

SpecQueue == InitQueue /\ [][NextQueue]_vars

(***************************************************************************)
(* SpecRetry: u1 asks for the newest page of r1 while the database is      *)
(* slow: a load attempt is answered or runs into its timeout               *)
(***************************************************************************)
RetryMaxFetches == 2
RetryMaxNow == (MAX_RETRIES + 1) * MESSAGE_LOAD_TIMEOUT + MAX_RETRIES * RETRY_DELAY_CAP

NextRetry ==
  \/ /\ nextFetch < RetryMaxFetches
     /\ FetchPreviousMessages(1, "r1", NoBefore)
  \/ \E f \in fetchReqs : FetchAccessGet(f)
  \/ \E f \in fetchReqs : FetchAccessDb(f)
  \/ \E f \in fetchReqs : FetchAccessSetex(f)
  \/ \E l \in loads : LoadCacheDone(l)
  \/ \E l \in loads : LoadDbDone(l)
  \/ \E l \in loads : LoadSetexDone(l)
  \/ \E l \in loads : LoadTimeout(l)
  \/ \E f \in fetchReqs : RetryFire(f)
  \/ \E t \in queueTimers : QueueTimerFire(t)
  \/ TickTimers(MESSAGE_LOAD_TIMEOUT, RetryMaxNow)

SpecRetry == InitQueue /\ [][NextRetry]_vars

(***************************************************************************)
(* SpecJoin: u1 and u2 are in r1 and send joinRoom for r1, for r2 and for  *)
(* a room that does not exist                                              *)
(***************************************************************************)
JoinMaxEvents == 3
JoinInputs == {"r1", "r2", "r0"}

InitRoom ==
  /\ now = 0
  /\ messages = <<>>
  /\ InitJoined

\* the joinRoom events before have been handled to the end
JoinIdle == joinReqs = {} /\ joinSaves = {} /\ loads = {} /\ readOps = {}

NextJoin ==
  \/ \E s \in Sockets, room \in JoinInputs :
        /\ nextJoin < JoinMaxEvents
        /\ JoinIdle
        /\ JoinRoom(s, room)
  \/ \E j \in joinReqs : JoinUpdateDone(j)
  \/ \E m \in joinSaves : JoinSaveDone(m)
  \/ \E l \in loads : LoadCacheDone(l)
  \/ \E l \in loads : LoadDbDone(l)
  \/ \E l \in loads : LoadSetexDone(l)
  \/ \E o \in readOps : \E i \in o.todo : ApplyRead(o, i)

SpecJoin == InitRoom /\ [][NextJoin]_vars

(***************************************************************************)
(* SpecOverlap: u1, in r1 with u2, sends joinRoom events whose handlers    *)
(* overlap                                                                 *)
(***************************************************************************)
OverlapMaxJoins == 2
OverlapRooms == {"r1", "r2"}

NextOverlap ==
  \/ \E room \in OverlapRooms :
        /\ nextJoin < OverlapMaxJoins
        /\ JoinRoom(1, room)
  \/ \E j \in joinReqs : JoinUpdateDone(j)
  \/ \E m \in joinSaves : JoinSaveDone(m)
  \/ \E l \in loads : LoadCacheDone(l)
  \/ \E l \in loads : LoadDbDone(l)
  \/ \E l \in loads : LoadSetexDone(l)
  \/ \E o \in readOps : \E i \in o.todo : ApplyRead(o, i)

SpecOverlap == InitRoom /\ [][NextOverlap]_vars

(***************************************************************************)
(* SpecCache: u1 logs in, joins r1, asks for its history, sends messages,  *)
(* goes away and logs in again, while the Redis server may fail a command  *)
(***************************************************************************)
CacheMaxJoins == 1
CacheMaxFetches == 2
CacheMaxSends == 2
CacheMaxTicks == 1
CacheOutcomes == {"ok", "no_user"}

\* the events before have been handled to the end
CacheQuiet ==
  /\ chatReqs = {} /\ fetchReqs = {} /\ joinReqs = {} /\ joinSaves = {}
  /\ loads = {} /\ readOps = {} /\ leaveJobs = {}

\* and no session is being opened
CacheIdle == CacheQuiet /\ \A s \in Sockets : sockSt[s] \notin {"auth", "dupwait"}

NextCache ==
  \/ \E s \in Sockets : CacheIdle /\ AuthStart(s, "u1", "ok")
  \/ \E s \in Sockets, outcome \in CacheOutcomes, fails \in CacheFailures :
        AuthFinishWith(s, outcome, fails)
  \/ \E s \in Sockets :
        /\ CacheQuiet
        /\ nextFetch = CacheMaxFetches /\ nextReq = CacheMaxSends
        /\ ClientDisconnect(s, "transport close")
  \/ \E j \in leaveJobs : LeaveJobDone(j)
  \/ \E s \in Sockets :
        /\ nextJoin < CacheMaxJoins
        /\ CacheIdle
        /\ JoinRoom(s, "r1")
  \/ \E j \in joinReqs : JoinUpdateDone(j)
  \/ \E m \in joinSaves : JoinSaveDone(m)
  \/ \E s \in Sockets :
        /\ nextFetch < CacheMaxFetches
        /\ nextReq = CacheMaxSends
        /\ CacheIdle
        /\ FetchPreviousMessages(s, "r1", NoBefore)
  \/ \E f \in fetchReqs : FetchAccessGet(f)
  \/ \E f \in fetchReqs : FetchAccessGetFail(f)
  \/ \E f \in fetchReqs : FetchAccessDb(f)
  \/ \E f \in fetchReqs : FetchAccessSetex(f)
  \/ \E f \in fetchReqs : FetchAccessSetexFail(f)
  \/ \E l \in loads : LoadCacheDone(l)
  \/ \E l \in loads : LoadCacheFail(l)
  \/ \E l \in loads : LoadDbDone(l)
  \/ \E l \in loads : LoadSetexDone(l)
  \/ \E l \in loads : LoadSetexFail(l)
  \/ \E o \in readOps : \E i \in o.todo : ApplyRead(o, i)
  \/ \E t \in queueTimers : QueueTimerFire(t)
  \/ TickTimers(LOAD_DELAY, LOAD_DELAY * CacheMaxTicks)
  \/ \E s \in Sockets :
        /\ nextReq < CacheMaxSends
        /\ CacheIdle
        /\ ChatMessage(s, "r1", <<"hi">>, "text", NoFile, NoFile)
  \/ \E r \in chatReqs : \E fails \in BOOLEAN : RateIncrDone(r, fails)
  \/ \E r \in chatReqs : ChatSaveDone(r, TRUE)

SpecCache == Init /\ [][NextCache]_vars

(***************************************************************************)
(* SpecForce: u1 and u2 are in r1, send messages and send force_login with *)
(* their own token, the other user's token or a token that does not verify *)
(***************************************************************************)
ForceMaxEvents == 3
ForceMaxSends == 1

NextForce ==
  \/ \E s \in {1, 2}, tokenUser \in Users \cup {NoUser} :
        /\ Len(recv[s]) < ForceMaxEvents
        /\ ForceLogin(s, tokenUser)
  \/ \E j \in leaveJobs : LeaveJobDone(j)
  \/ \E s \in {1, 2} :
        /\ nextReq < ForceMaxSends
        /\ ChatMessage(s, "r1", <<"hi">>, "text", NoFile, NoFile)
  \/ \E r \in chatReqs : RateIncrDone(r, FALSE)
  \/ \E r \in chatReqs : ChatSaveDone(r, TRUE)

SpecForce == InitSend /\ [][NextForce]_vars

(***************************************************************************)
(* SpecTwin: two sessions of u1 open at the same time, join r1, send a     *)
(* message and go away                                                     *)
(***************************************************************************)
TwinMaxJoins == 1
TwinMaxSends == 1

NextTwin ==
  \/ \E s \in {1, 2} : AuthStart(s, "u1", "ok")
  \/ \E s \in {1, 2} : AuthFinish(s, "ok")
  \/ \E s \in {1, 2} :
        /\ nextJoin < TwinMaxJoins
        /\ JoinIdle /\ chatReqs = {}
        /\ JoinRoom(s, "r1")
  \/ \E j \in joinReqs : JoinUpdateDone(j)
  \/ \E m \in joinSaves : JoinSaveDone(m)
  \/ \E l \in loads : LoadCacheDone(l)
  \/ \E l \in loads : LoadDbDone(l)
  \/ \E l \in loads : LoadSetexDone(l)
  \/ \E o \in readOps : \E i \in o.todo : ApplyRead(o, i)
  \/ \E s \in {1, 2} :
        /\ nextReq < TwinMaxSends
        /\ JoinIdle
        /\ ChatMessage(s, "r1", <<"hi">>, "text", NoFile, NoFile)
  \/ \E r \in chatReqs : RateIncrDone(r, FALSE)
  \/ \E r \in chatReqs : ChatSaveDone(r, TRUE)
  \/ \E s \in {1, 2}, reason \in ClientReasons :
        /\ JoinIdle /\ chatReqs = {}
        /\ ClientDisconnect(s, reason)
  \/ \E j \in leaveJobs : LeaveJobDone(j)

SpecTwin == Init /\ [][NextTwin]_vars

(***************************************************************************)
(* SpecStray: u1 is in r1 and u2 is in r2; both send chatMessage, typing   *)
(* and markMessagesAsRead events that name either room                     *)
(***************************************************************************)
StrayMaxEvents == 2

InitStray ==
  /\ now = 3
  /\ messages = <<Stored(1, "r1", FALSE, 1), Stored(2, "r2", FALSE, 2)>>
  /\ sockSt = [s \in Sockets |-> IF s \in {1, 2} THEN "connected" ELSE "new"]
  /\ sockUser = [s \in Sockets |-> IF s = 1 THEN "u1" ELSE IF s = 2 THEN "u2" ELSE NoUser]
  /\ sockRooms = [s \in Sockets |-> IF s = 1 THEN {"r1"} ELSE IF s = 2 THEN {"r2"} ELSE {}]
  /\ recv = [s \in Sockets |-> <<>>]
  /\ closeInfo = [s \in Sockets |-> [reason |-> "none", at |-> 0]]
  /\ connectedUsers = <<[k |-> "u1", v |-> 1], [k |-> "u2", v |-> 2]>>
  /\ userRooms = <<[k |-> "u1", v |-> "r1"], [k |-> "u2", v |-> "r2"]>>
  /\ dupTimers = {}
  /\ dupLog = {}
  /\ messageQueues = <<>>
  /\ rateLimitCache = <<>>
  /\ streamingSessions = <<>>
  /\ leaveJobs = {}
  /\ last = [a |-> "init", s |-> NoSock]
  /\ nextCleanup = CLEANUP_INTERVAL
  /\ messageLoadRetries = <<>>
  /\ redisRate = <<>>
  /\ useMock = FALSE
  /\ chatReqs = {}
  /\ nextReq = 0
  /\ passed = <<>>
  /\ InitIdle

StrayEvents == nextReq + nextOp + Len(recv[1]) + Len(recv[2])

NextStray ==
  \/ \E s \in {1, 2}, room \in Rooms :
        /\ StrayEvents < StrayMaxEvents
        /\ chatReqs = {}
        /\ ChatMessage(s, room, <<"hi">>, "text", NoFile, NoFile)
  \/ \E r \in chatReqs : RateIncrDone(r, FALSE)
  \/ \E r \in chatReqs : ChatSaveDone(r, TRUE)
  \/ \E s \in {1, 2}, room \in Rooms \cup {""} :
        /\ StrayEvents < StrayMaxEvents
        /\ last.a # "Typing"
        /\ Typing(s, room, TRUE)
  \/ \E s \in {1, 2}, room \in Rooms, ids \in {<<1>>, <<2>>} :
        /\ StrayEvents < StrayMaxEvents
        /\ readOps = {}
        /\ MarkMessagesAsRead(s, room, ids)
  \/ \E o \in readOps : \E i \in o.todo : ApplyRead(o, i)
  \/ \E o \in readOps : MarkReadDone(o)

SpecStray == InitStray /\ [][NextStray]_vars

(***************************************************************************)
(* SpecLeave: u1 and u2 are in r1, change rooms and disconnect, the client *)
(* by its own disconnect() or by losing its transport                      *)
(***************************************************************************)
LeaveMaxJoins == 1
LeaveRooms == {"r1", "r2"}

NextLeave ==
  \/ \E s \in Sockets, reason \in ClientReasons :
        /\ JoinIdle
        /\ ClientDisconnect(s, reason)
  \/ \E j \in leaveJobs : LeaveJobDone(j)
  \/ \E s \in Sockets, room \in LeaveRooms :
        /\ nextJoin < LeaveMaxJoins
        /\ JoinIdle
        /\ JoinRoom(s, room)
  \/ \E j \in joinReqs : JoinUpdateDone(j)
  \/ \E m \in joinSaves : JoinSaveDone(m)
  \/ \E l \in loads : LoadCacheDone(l)
  \/ \E l \in loads : LoadDbDone(l)
  \/ \E l \in loads : LoadSetexDone(l)
  \/ \E o \in readOps : \E i \in o.todo : ApplyRead(o, i)

SpecLeave == InitRoom /\ [][NextLeave]_vars

(***************************************************************************)
(* SpecPreempt: u1 and u2 are in r1; u1 logs in again on a third socket,   *)
(* which pre-empts the first while that one changes to r2 or goes away,    *)
(* and then joins r1                                                       *)
(***************************************************************************)
PreemptMaxJoins == 2
PreemptMaxTicks == 2
PreemptJoins == {<<1, "r2">>, <<3, "r1">>}
PreemptReasons == {"transport close"}

NextPreempt ==
  \/ AuthStart(3, "u1", "ok")
  \/ AuthFinish(3, "ok")
  \/ \E t \in dupTimers : DupTimerFire(t)
  \/ \E r \in PreemptReasons : ClientDisconnect(1, r)
  \/ \E j \in leaveJobs : LeaveJobDone(j)
  \/ \E p \in PreemptJoins :
        /\ nextJoin < PreemptMaxJoins
        /\ JoinIdle
        /\ JoinRoom(p[1], p[2])
  \/ \E j \in joinReqs : JoinUpdateDone(j)
  \/ \E m \in joinSaves : JoinSaveDone(m)
  \/ \E l \in loads : LoadCacheDone(l)
  \/ \E l \in loads : LoadDbDone(l)
  \/ \E l \in loads : LoadSetexDone(l)
  \/ \E l \in loads : LoadTimeout(l)
  \/ \E o \in readOps : \E i \in o.todo : ApplyRead(o, i)
  \/ TickTimers(DUPLICATE_LOGIN_TIMEOUT, DUPLICATE_LOGIN_TIMEOUT * PreemptMaxTicks)

SpecPreempt == InitRoom /\ [][NextPreempt]_vars

(***************************************************************************)
(* Claims about the connection registry                                    *)
(***************************************************************************)
Connected(s) == sockSt[s] = "connected"

Count(seq, P(_)) == Cardinality({i \in 1..Len(seq) : P(seq[i])})

IsDupWarning(e) == e.ev = "duplicate_login"

IsDupEnded(e) == e.ev = "session_ended" /\ e.reason = "duplicate_login"

\* C1: the registry holds at most one entry per user and, when no pre-emption
\* is pending, every connected authenticated session is the one Lookup returns
\* for its user (so at most one session per user is connected).
C1_SingleActiveSession ==
  /\ \A i, j \in 1..Len(connectedUsers) :
        connectedUsers[i].k = connectedUsers[j].k => i = j
  /\ dupTimers = {} =>
        \A s \in Sockets : Connected(s) => Lookup(sockUser[s]) = s

\* the first time the middleware found c1 as the existing session
FirstFound(c1) == Min({p.at : p \in {q \in dupLog : q.existing = c1}})

\* C2: when the duplicate login check of a new session c2 finds a registered,
\* connected session c1 of the same user, c1 has received duplicate_login; while
\* c1 stays connected c2 waits and the 8 s are not over; when c1 did not leave by
\* itself it is closed at the expiry of the timer, after exactly one
\* session_ended{duplicate_login} that follows the warning; and when c2 has
\* just been registered, Lookup(u) = c2.
C2_Preemption ==
  \A p \in dupLog :
    LET c1 == p.existing
        c2 == p.newSock
    IN
    /\ Count(recv[c1], IsDupWarning) >= 1
    /\ Connected(c1) =>
         /\ sockSt[c2] = "dupwait"
         /\ now <= p.at + DUPLICATE_LOGIN_TIMEOUT
         /\ Count(recv[c1], IsDupEnded) = 0
    /\ sockSt[c2] # "dupwait" => sockSt[c1] = "closed"
    /\ (sockSt[c1] = "closed" /\ closeInfo[c1].reason \notin ClientReasons) =>
         /\ Count(recv[c1], IsDupEnded) = 1
         /\ IsDupEnded(recv[c1][Len(recv[c1])])
         /\ \E i \in 1..Len(recv[c1]) : IsDupWarning(recv[c1][i])
         /\ closeInfo[c1].at = FirstFound(c1) + DUPLICATE_LOGIN_TIMEOUT
    /\ (last.a = "AuthFinish" /\ last.s = c2 /\ Connected(c2)) =>
         Lookup(sockUser[c2]) = c2

\* c1 was warned, ended once and closed by the timer, and c2 is registered
C2_Witness ==
  \E p \in dupLog :
    /\ sockSt[p.existing] = "closed"
    /\ closeInfo[p.existing].reason = "forced server close"
    /\ closeInfo[p.existing].at = p.at + DUPLICATE_LOGIN_TIMEOUT
    /\ recv[p.existing] = <<[ev |-> "duplicate_login"],
                            [ev |-> "session_ended", reason |-> "duplicate_login"]>>
    /\ last.a = "AuthFinish" /\ last.s = p.newSock
    /\ Lookup(sockUser[p.newSock]) = p.newSock

\* C3: a disconnect of handle c of user u leaves the entry of u alone when it
\* points at another handle, removes it when it points at c, and changes no
\* other user's entry.
C3_UnregisterGuarded ==
  [][\A s \in Sockets :
       (sockSt[s] = "connected" /\ sockSt'[s] = "closed") =>
          /\ Lookup(sockUser[s]) # s => Lookup(sockUser[s])' = Lookup(sockUser[s])
          /\ Lookup(sockUser[s]) = s => Lookup(sockUser[s])' = NoSock
          /\ \A u \in Users \ {sockUser[s]} : Lookup(u)' = Lookup(u)]_vars

\* handle s has just disconnected while the entry of its user points at
\* another, connected handle
C3_Witness ==
  \E s \in Sockets :
    /\ last.a \in {"ClientDisconnect", "DupTimerFire"} /\ last.s = s
    /\ sockSt[s] = "closed"
    /\ Lookup(sockUser[s]) \notin {s, NoSock}
    /\ Connected(Lookup(sockUser[s]))

(***************************************************************************)
(* Claims about the rate limiter                                           *)
(***************************************************************************)
\* C4: in every 60 s window (index floor(now / 60000)) at most 40 sends of a
\* user pass the rate limiter.
C4_AtMostFortyPerWindow ==
  \A i \in 1..Len(passed) : passed[i].v <= RATE_LIMIT_MAX

IsMessage(e) == e.ev = "message"

IsError(e) == e.ev = "error"

\* C5: when u1 has sent 41 valid text messages in one window, 40 messages are
\* persisted and were fanned out to the room, and the 41st made the sender
\* receive one error, whose code is RATE_LIMITED.
C5_FortyFirstRateLimited ==
  (nextReq = RATE_LIMIT_MAX + 1 /\ chatReqs = {} /\ now = 0) =>
     /\ Len(messages) = RATE_LIMIT_MAX
     /\ \A s \in {1, 2} : Count(recv[s], IsMessage) = RATE_LIMIT_MAX
     /\ Count(recv[1], IsError) = 1
     /\ IsError(recv[1][Len(recv[1])])
     /\ recv[1][Len(recv[1])].code = "RATE_LIMITED"

\* what the code does there: the same with the code MESSAGE_ERROR
C5_CodeBehaviour ==
  (nextReq = RATE_LIMIT_MAX + 1 /\ chatReqs = {} /\ now = 0) =>
     /\ Len(messages) = RATE_LIMIT_MAX
     /\ \A s \in {1, 2} : Count(recv[s], IsMessage) = RATE_LIMIT_MAX
     /\ Count(recv[1], IsError) = 1
     /\ IsError(recv[1][Len(recv[1])])
     /\ recv[1][Len(recv[1])].code = "MESSAGE_ERROR"
     /\ recv[1][Len(recv[1])].message = "rate limit"

(***************************************************************************)
(* Claims about the history loader                                         *)
(***************************************************************************)
Ids(seq) == {seq[i] : i \in 1..Len(seq)}

Ascending(seq) == \A i \in 1..Len(seq) - 1 : messages[seq[i]].ts <= messages[seq[i + 1]].ts

\* the k newest messages of the set S
NewestOf(S, k) ==
  {i \in S : Cardinality({j \in S : messages[j].ts > messages[i].ts}) < k}

\* a reply is the page the claim describes for its request
PageOf(e) ==
  LET M == Matching(e.room, e.before)
      n == Cardinality(M)
  IN /\ Len(e.messages) = Min({n, e.limit})
     /\ Ids(e.messages) = NewestOf(M, e.limit)
     /\ \A i \in 1..Len(e.messages) - 1 :
            messages[e.messages[i]].ts < messages[e.messages[i + 1]].ts
     /\ e.hasMore = (n > e.limit)
     /\ e.oldestTimestamp = IF e.messages = <<>> THEN NoBefore
                            ELSE messages[e.messages[1]].ts

\* reply e2 is the page after reply e1: no gap and no overlap
NextPageOf(e1, e2) ==
  LET M == Matching(e1.room, e1.before) IN
  /\ Ids(e1.messages) \cap Ids(e2.messages) = {}
  /\ Ids(e1.messages) \cup Ids(e2.messages) = NewestOf(M, 2 * e1.limit)

\* loadMessages has just built a reply: from the cache or from the database
ReplyBuilt == last.a \in {"LoadCacheDone", "LoadDbDone"} /\ last.built

\* C6: every Fetch(R, before, limit) reply with hasMore = false contains exactly
\* the messages stored when the reply is built that are in room R, not deleted
\* and (before absent or) older than before, in ascending timestamp order
C6_FetchExact ==
  (ReplyBuilt /\ ~last.res.hasMore) =>
     /\ Ids(last.res.messages) = Matching(last.room, last.before)
     /\ Len(last.res.messages) = Cardinality(Matching(last.room, last.before))
     /\ Ascending(last.res.messages)

\* what the code guarantees: a reply built from the database is exact
C6_DatabaseReplyExact ==
  (last.a = "LoadDbDone" /\ ~last.res.hasMore) =>
     /\ Ids(last.res.messages) = Matching(last.room, last.before)
     /\ Len(last.res.messages) = Cardinality(Matching(last.room, last.before))
     /\ Ascending(last.res.messages)

\* C7: a history load with limit L over n matching messages with distinct
\* timestamps returns the min(n, L) newest in ascending order, hasMore = (n > L)
\* and oldestTimestamp = the first timestamp (null when none); loading again
\* with before = oldestTimestamp returns the next older page without gap or
\* overlap; over 60 messages with L = 25 the pages are t36..t60 and t11..t35,
\* both with hasMore
C7_Pagination ==
  \A s \in Sockets : \A e1 \in Replies(s) :
     /\ PageOf(e1)
     /\ \A e2 \in Replies(s) :
           (/\ e2.room = e1.room /\ e2.limit = e1.limit
            /\ e1.oldestTimestamp # NoBefore /\ e2.before = e1.oldestTimestamp)
           => NextPageOf(e1, e2)
     /\ (Len(messages) = ScenarioN /\ e1.limit = BATCH_SIZE /\ e1.before = NoBefore)
           => /\ e1.messages = [i \in 1..BATCH_SIZE |-> i + BATCH_SIZE + 10]
              /\ e1.hasMore /\ e1.oldestTimestamp = BATCH_SIZE + 11
     /\ (Len(messages) = ScenarioN /\ e1.limit = BATCH_SIZE /\ e1.before = BATCH_SIZE + 11)
           => /\ e1.messages = [i \in 1..BATCH_SIZE |-> i + 10]
              /\ e1.hasMore /\ e1.oldestTimestamp = 11

\* the 60-message scenario has been paged twice
C7_Witness ==
  /\ Len(messages) = ScenarioN
  /\ \E e1, e2 \in Replies(1) :
        /\ e1.before = NoBefore /\ e1.hasMore /\ Len(e1.messages) = BATCH_SIZE
        /\ e2.before = e1.oldestTimestamp /\ e2.hasMore /\ Len(e2.messages) = BATCH_SIZE
        /\ e2.messages[BATCH_SIZE] = e1.messages[1] - 1

(***************************************************************************)
(* Claims about read marking                                               *)
(***************************************************************************)
ReaderEntries(m, u) ==
  {i \in 1..Len(messages[m].readers) : messages[m].readers[i].userId = u}

\* one write of a read marking leaves alone every message that its user has
\* read already or that is not in the room of the markMessagesAsRead
ReadStepIdempotent ==
  last'.a = "ApplyRead" =>
    \A m \in 1..Len(messages) :
       /\ HasReader(m, last'.op.user) => messages'[m] = messages[m]
       /\ (last'.op.kind = "bulk" /\ messages[m].room # last'.op.room)
             => messages'[m] = messages[m]
       /\ \A i \in 1..Len(messages[m].readers) :
             messages'[m].readers[i] = messages[m].readers[i]

\* C8: MarkRead(u, R, M) is idempotent: a second application (also with an id
\* repeated in M, or concurrent with the read marking of a history load of u)
\* leaves every readers set as after the first, with at most one reader
\* entry for u per message; messages that are not in R are not modified
C8_MarkReadIdempotent ==
  /\ [](\A m \in 1..Len(messages) : \A u \in Users : Cardinality(ReaderEntries(m, u)) <= 1)
  /\ [][ReadStepIdempotent]_vars

\* a markMessagesAsRead write found the entry that an earlier marking had made
C8_Witness ==
  /\ last.a = "ApplyRead" /\ last.op.kind = "bulk" /\ last.had
  /\ last.op.id = ReadMaxOps
  /\ ReaderEntries(1, "u1") # {}
  /\ ReaderEntries(3, "u1") = {}

(***************************************************************************)
(* Claims about reactions                                                  *)
(***************************************************************************)
\* the reactions of user u with emoji e to message m that were saved, in order
SavedReacts(u, m, e) ==
  SelectSeq(reactLog, LAMBDA x : x.ok /\ x.user = u /\ x.m = m /\ x.emoji = e)

\* saving a reaction of u with e changes no other pair and no other message
ReactStepLocal ==
  last'.a = "ReactSaveDone" =>
    /\ messages'[last'.m].reactions \ {last'.pair} = messages[last'.m].reactions \ {last'.pair}
    /\ \A m \in 1..Len(messages) : m # last'.m => messages'[m] = messages[m]

\* C9: for one user u, message m and emoji e handled one after the other, add
\* then remove leaves u absent from m.reactions[e] and remove then add leaves
\* u present; the reactions of other users and other emojis are unchanged
C9_ReactLastWins ==
  /\ [](\A u \in Users : \A m \in 1..Len(messages) : \A e \in Emojis :
          LET ops == SavedReacts(u, m, e)
              n == Len(ops)
          IN (reactReqs = {} /\ n >= 2) =>
               /\ (ops[n - 1].type = "add" /\ ops[n].type = "remove")
                     => Pair(e, u) \notin messages[m].reactions
               /\ (ops[n - 1].type = "remove" /\ ops[n].type = "add")
                     => Pair(e, u) \in messages[m].reactions)
  /\ [][ReactStepLocal]_vars

\* u1 has added and then removed e1 on message 1, which u2 keeps reacting to
C9_Witness ==
  /\ reactReqs = {}
  /\ Len(reactLog) = 2
  /\ reactLog[1] = [user |-> "u1", m |-> 1, emoji |-> "e1", type |-> "add", ok |-> TRUE]
  /\ reactLog[2] = [user |-> "u1", m |-> 1, emoji |-> "e1", type |-> "remove", ok |-> TRUE]
  /\ Pair("e1", "u2") \in messages[1].reactions
  /\ Pair("e1", "u1") \notin messages[1].reactions

ReactionUpdates(m) ==
  SelectSeq(roomLog[messages[m].room],
            LAMBDA e : e.ev = "messageReactionUpdate" /\ e.messageId = m)

\* C37: when two different users react to the same message at overlapping
\* times, the stored reactions afterwards contain the effect of both
\* operations and the last messageReactionUpdate sent to the room equals the
\* stored reactions
C37_NoLostReaction ==
  (/\ reactReqs = {}
   /\ Len(reactLog) = 2
   /\ reactLog[1].ok /\ reactLog[2].ok
   /\ reactLog[1].user # reactLog[2].user
   /\ reactLog[1].m = reactLog[2].m)
  => LET m == reactLog[1].m
         stored == messages[m].reactions
         sent == ReactionUpdates(m)
     IN /\ \A i \in 1..2 :
              (reactLog[i].type = "add") <=>
                 (Pair(reactLog[i].emoji, reactLog[i].user) \in stored)
        /\ sent[Len(sent)].reactions = stored

(***************************************************************************)
(* Claims about AI streaming                                               *)
(***************************************************************************)
\* the positions before i of the room's events of kind ev for session sid
Before(log, i, ev, sid) == {k \in 1..i - 1 : log[k].ev = ev /\ log[k].sid = sid}

AiEvents == {"aiMessageStart", "aiMessageChunk", "aiMessageComplete", "aiMessageError"}

\* C10: in the events delivered to a room, each aiMessageComplete{sid} is
\* preceded by exactly one aiMessageStart{sid} and by zero or more
\* aiMessageChunk{sid} that all come after that start, and no
\* aiMessageComplete{sid} comes after an aiMessageError{sid}
C10_AiEventOrder ==
  \A r \in Rooms : \A i \in 1..Len(roomLog[r]) :
     LET log == roomLog[r] IN
     log[i].ev = "aiMessageComplete" =>
        /\ Cardinality(Before(log, i, "aiMessageStart", log[i].sid)) = 1
        /\ \A k \in Before(log, i, "aiMessageChunk", log[i].sid) :
              Before(log, k, "aiMessageStart", log[i].sid) # {}
        /\ Before(log, i, "aiMessageError", log[i].sid) = {}

\* what the code guarantees: a completion and every chunk of a session come
\* after a start of that session
C10_AfterSomeStart ==
  \A r \in Rooms : \A i \in 1..Len(roomLog[r]) :
     LET log == roomLog[r] IN
     log[i].ev \in {"aiMessageChunk", "aiMessageComplete", "aiMessageError"} =>
        Before(log, i, "aiMessageStart", log[i].sid) # {}

(***************************************************************************)
(* Claims about the bounded registries                                     *)
(***************************************************************************)
\* C11: a bounded registry never holds more than its configured maximum
\* number of entries, after any sequence of set, get, delete and clear
C11_MapBounded ==
  /\ Len(lm) <= lmMax
  /\ \A i, j \in 1..Len(lm) : lm[i].k = lm[j].k => i = j

\* a set of a new key on a full map has evicted the oldest entry
C11_Witness ==
  /\ last.a = "set" /\ ~last.had /\ last.size = lmMax
  /\ Len(lm) = lmMax
  /\ lm[Len(lm)].k = last.k

Evicted == LMKeys(lm) \ LMKeys(lm')

\* C32: set(k, v) removes an entry only when k is absent and the registry is
\* at capacity, and then exactly the least-recently-inserted key; set on a
\* key that is present and get on any key remove nothing and leave the
\* oldest key the oldest
C32_EvictOnlyForNewKey ==
  [][/\ last'.a = "set" =>
          /\ Evicted # {} =>
                /\ ~LMHas(lm, last'.k)
                /\ Len(lm) >= lmMax
                /\ Evicted = {lm[1].k}
          /\ ~LMHas(lm, last'.k) /\ Len(lm) >= lmMax => Evicted = {lm[1].k}
          /\ LMHas(lm, last'.k) => Evicted = {} /\ lm'[1].k = lm[1].k
     /\ last'.a = "get" => lm' = lm]_vars

(***************************************************************************)
(* Claims about the message queue of the cluster service                   *)
(***************************************************************************)
\* C40: the queue of a room never holds more than maxQueueSize messages, at
\* most one batch per room is being saved at any time, and a batch whose
\* save fails is put back at the front, so the queued messages keep their
\* enqueue order
C40_QueueBoundedOrdered ==
  \A r \in Rooms :
     /\ Len(queues[r]) <= maxQueueSize
     /\ Cardinality({b \in batches : b.room = r}) <= 1
     /\ \A i, j \in 1..Len(queues[r]) : i < j => queues[r][i] < queues[r][j]

(***************************************************************************)
(* Claims about the fan-out of chat messages                               *)
(***************************************************************************)
MessagesOf(s) == SelectSeq(recv[s], IsMessage)

\* C12: when three users whose sessions are in room r send one text message
\* each, one after the other, every one of the three sessions (the sender
\* included) receives each message exactly once, in the order they were sent
C12_RoomOrder ==
  \A s \in {1, 2, 3} :
     /\ Len(MessagesOf(s)) = Len(messages)
     /\ \A i \in 1..Len(messages) :
           /\ MessagesOf(s)[i].id = i
           /\ messages[i].req = i
           /\ \E x \in {1, 2, 3} : /\ messages[i].sender = sockUser[x]
                                   /\ messages[i].content = ThreeContent(x)

\* the three messages have been sent, u3's first, and delivered to all
C12_Witness ==
  /\ Len(messages) = 3 /\ chatReqs = {}
  /\ messages[1].sender = "u3"
  /\ \A s \in {1, 2, 3} : Len(MessagesOf(s)) = 3

(***************************************************************************)
(* Claims about read receipts                                              *)
(***************************************************************************)
IsRead(e) == e.ev = "messagesRead"

\* what a step of markMessagesAsRead sends: a finished bulk update sends one
\* messagesRead to every other session of the room and nothing to the
\* caller; a failed one, and every step before the end, sends nothing
ReadReceiptStep ==
  /\ last'.a = "MarkReadDone" =>
        \A x \in Sockets :
           recv'[x] = IF last'.op.room \in sockRooms[x] /\ x # last'.op.s
                      THEN Append(recv[x], [ev |-> "messagesRead", userId |-> last'.op.user,
                                            messageIds |-> last'.op.ids])
                      ELSE recv[x]
  /\ last'.a \in {"MarkMessagesAsRead", "ApplyRead", "MarkReadFail"} => recv' = recv

\* C13: after a markMessagesAsRead{r, M} of user u with non-empty M is
\* applied, every other session in r receives exactly one messagesRead{u, M}
\* and the caller receives no messagesRead and no reply; when the bulk update
\* fails nothing is broadcast and the caller still receives nothing
C13_ReadReceipt ==
  /\ [][ReadReceiptStep]_vars
  /\ [](\A i \in 1..Len(recv[1]) : ~IsRead(recv[1][i]) /\ ~IsError(recv[1][i]))

\* the last of u1's markings has been applied and u2 has been told once
C13_Witness ==
  /\ last.a = "MarkReadDone" /\ last.s = 1
  /\ nextOp = ReadMaxOps /\ readOps = {}
  /\ Len(SelectSeq(recv[2], IsRead)) = 1
  /\ SelectSeq(recv[1], IsRead) = <<>>

\* the events of kind ev for session sid that the room has received
Sent(r, ev, sid) ==
  {k \in 1..Len(roomLog[r]) : roomLog[r][k].ev = ev /\ roomLog[r][k].sid = sid}

\* the sessions that were started in room r
Started(r) ==
  {roomLog[r][k].sid : k \in {i \in 1..Len(roomLog[r]) : roomLog[r][i].ev = "aiMessageStart"}}

\* C14: every streaming session that is created is ended by exactly one
\* terminal event delivered to the room, aiMessageComplete or aiMessageError,
\* and is then absent from the streaming registry, however the generator and
\* the save of the final message end: once no job of the session is left, the
\* room has its one terminal event and the registry has no entry
C14_SessionEnded ==
  \A r \in Rooms : \A sid \in Started(r) :
     (\A j \in aiJobs : j.sid # sid) =>
        /\ Cardinality(Sent(r, "aiMessageComplete", sid))
             + Cardinality(Sent(r, "aiMessageError", sid)) = 1
        /\ ~LMHas(streamingSessions, sid)

(***************************************************************************)
(* Claims about fetchPreviousMessages                                      *)
(***************************************************************************)
\* the handlers of key k that have started a load and not finished it
Loading(k) == {f \in fetchReqs : f.stage \in {"load", "wait"} /\ FetchKey(f) = k}

\* C15: for each key (roomId, userId, before) at most one history load is
\* running at any time
C15_OneLoadPerKey ==
  \A f \in fetchReqs : Cardinality(Loading(FetchKey(f))) <= 1

\* C16: a fetchPreviousMessages whose load attempts all time out makes at
\* most 3 load attempts in total
C16_AtMostThreeAttempts ==
  \A i \in 1..Len(fetchLog) : Len(fetchLog[i].attempts) <= 3

\* the handler of request i has run to its end
Handled(i) == \A f \in fetchReqs : f.id # i

\* C20: a fetchPreviousMessages that is not dropped as a duplicate emits
\* messageLoadStart and then exactly one of previousMessagesLoaded and
\* error{LOAD_ERROR}, also when access is denied; a dropped one emits nothing
C20_LoadEvents ==
  \A i \in 1..Len(fetchLog) :
     LET e == fetchLog[i].events IN
     IF fetchLog[i].dropped
     THEN e = <<>>
     ELSE /\ Len(e) <= 2
          /\ Len(e) >= 1 => e[1] = "messageLoadStart"
          /\ Len(e) = 2 => e[2] \in {"previousMessagesLoaded", "error"}
          /\ Handled(i) => Len(e) = 2

(***************************************************************************)
(* Claims about pre-emption and rooms                                      *)
(***************************************************************************)
\* socket s was closed by the timer of handleDuplicateLogin
Preempted(s) == sockSt[s] = "closed" /\ closeInfo[s].reason = "forced server close"

\* C17: the close of a session by pre-emption persists and broadcasts no
\* "disconnected" system message, removes nobody from the participants and
\* broadcasts no participantsUpdate
C17_QuietPreemption ==
  last.a = "LeaveJobDone" => ~Preempted(last.job.s)

\* C18: after a pre-empted session has been sent session_ended, no further
\* event is delivered to it: the notification is the last event it receives
C18_NothingAfterSessionEnded ==
  \A s \in Sockets : \A i \in 1..Len(recv[s]) :
     IsDupEnded(recv[s][i]) => i = Len(recv[s])

\* socket 1 was pre-empted while its joinRoom of r2 was in progress; since
\* then r2 has been told about the leave and the joinRoom has sent its reply
C18_Witness ==
  /\ Preempted(1)
  /\ IsDupEnded(recv[1][Len(recv[1])])
  /\ \E i \in 1..Len(messages) : messages[i].content = <<"disconnected", "u1">>
  /\ last.a = "LoadSetexDone" /\ last.s = 1

\* what joinRoom could change: current rooms, subscriptions, participants,
\* stored messages, broadcasts, and the work in progress
JoinState == <<userRooms, sockRooms, participants, messages, roomLog, joinReqs,
               joinSaves, loads, readOps>>

\* C19: joinRoom(r) by a user whose current room is r changes no state,
\* broadcasts nothing and replies joinRoomSuccess{r} to the caller alone
C19_RejoinNoOp ==
  [][(last'.a = "JoinRoom" /\ CurrentRoom(sockUser[last'.s]) = last'.room) =>
       /\ UNCHANGED JoinState
       /\ recv' = [recv EXCEPT ![last'.s] =
                     Append(@, [ev |-> "joinRoomSuccess", roomId |-> last'.room])]]_vars

\* u1 has moved to r2 and has then sent joinRoom(r2) twice more
C19_Witness ==
  /\ last.a = "JoinRoom" /\ last.s = 1 /\ last.room = "r2" /\ last.same
  /\ CurrentRoom("u1") = "r2" /\ "r2" \in sockRooms[1]
  /\ Len(recv[1]) >= 2
  /\ recv[1][Len(recv[1]) - 1] = [ev |-> "joinRoomSuccess", roomId |-> "r2"]

IsJoinError(e) == e.ev = "joinRoomError"

\* the joinRoom requests that end with joinRoomError in this step
FailedJoins ==
  {j \in joinReqs : /\ \A k \in joinReqs' : k.id # j.id
                    /\ Count(recv'[j.s], IsJoinError) > Count(recv[j.s], IsJoinError)}

\* C24: after a joinRoom that ends in joinRoomError the user's current room
\* and subscription are what they were before the request and the user is no
\* participant of the target room
C24_FailedJoinChangesNothing ==
  [][\A j \in FailedJoins :
       /\ CurrentRoom(j.user)' = j.currentRoom
       /\ j.currentRoom # NoRoom => j.currentRoom \in sockRooms'[j.s]
       /\ j.room \in Rooms => j.user \notin participants'[j.room]]_vars

\* socket s receives in this step the event that is fanned out to room r
Receives(s, r) ==
  LET e == roomLog'[r][Len(roomLog'[r])] IN
  Count(recv'[s], LAMBDA x : x = e) > Count(recv[s], LAMBDA x : x = e)

\* C25: an event fanned out to room R reaches exactly the connected sessions
\* whose user's current room in the registry is R
C25_FanOutFollowsRegistry ==
  [][\A r \in Rooms : roomLog'[r] # roomLog[r] =>
       \A s \in Sockets :
          Receives(s, r) <=> (sockSt[s] = "connected" /\ CurrentRoom(sockUser[s]) = r)]_vars

(***************************************************************************)
(* Claims about chatMessage                                                *)
(***************************************************************************)
\* C23: when a chatMessage to room R has been persisted, the cached latest
\* page of R is gone
C23_CacheInvalidated ==
  (last.a = "ChatSaveDone" /\ Len(messages) > 0) =>
     ~LMHas(histCache, HistKey(messages[Len(messages)].room, NoBefore, BATCH_SIZE))

\* what the claim calls a valid chatMessage: a room, and content or fileData
ValidPayload(msg) == msg.room # "" /\ (msg.content # <<>> \/ msg.fileData # NoFile)

ValidationError(s) ==
  [recv EXCEPT ![s] = Append(@, [ev |-> "error", code |-> "MESSAGE_ERROR",
                                 message |-> "content required"])]

\* C26: a chatMessage with the wire payload {room, content, type, fileData}
\* passes validation exactly when it has a room and content or fileData; one
\* that fails changes nothing and yields an error to the sender only
C26_Validation ==
  [][(last'.a = "ChatMessage" /\ last'.msg.file = NoFile) =>
       IF ValidPayload(last'.msg)
       THEN recv' # ValidationError(last'.s)
       ELSE /\ recv' = ValidationError(last'.s)
            /\ UNCHANGED <<messages, chatReqs, rateLimitCache, redisRate, passed,
                           roomLog>>]_vars

\* the kinds of message the specification knows
Kinds == {"text", "file", "system", "ai"}

\* C27: a message persisted by chatMessage has the sending user as sender,
\* the room and content of the request and a kind in {text, file, system,
\* ai}; the kind is file whenever a file reference is set
C27_PersistedShape ==
  [][(last'.a = "ChatSaveDone" /\ Len(messages') = Len(messages) + 1) =>
       LET m == messages'[Len(messages')]
       IN /\ m.sender = sockUser[last'.s]
          /\ \E r \in chatReqs : r.id = m.req /\ m.room = r.room /\ m.content = r.content
          /\ m.type \in Kinds
          /\ m.file # NoFile => m.type = "file"]_vars

IsMessageEvent(e) == e.ev = "message"

\* C29: a message event refers to a persisted message; when persisting a
\* chatMessage fails no message event is delivered, no AI job starts and only
\* the sender receives an error event
C29_PersistBeforeFanOut ==
  /\ [](\A s \in Sockets : \A i \in 1..Len(recv[s]) :
          IsMessageEvent(recv[s][i]) => recv[s][i].id \in 1..Len(messages))
  /\ [][(last'.a = "ChatSaveDone" /\ ~last'.ok) =>
          /\ recv' = [recv EXCEPT ![last'.s] =
                        Append(@, [ev |-> "error", code |-> "MESSAGE_ERROR",
                                   message |-> "save failed"])]
          /\ UNCHANGED <<messages, aiJobs, nextJob, streamingSessions, roomLog>>]_vars

\* the save of a message that mentions an AI failed
C29_Witness ==
  /\ last.a = "ChatSaveDone" /\ ~last.ok /\ last.mentions # <<>>
  /\ Count(recv[last.s], LAMBDA e : e.ev = "error") = 1
  /\ aiJobs = {}

\* C33: when one session sends m1 and then m2 to the same room, every
\* session in the room receives the message event of m1 before that of m2
C33_SendOrderKept ==
  \A s \in Sockets : \A i, j \in 1..Len(recv[s]) :
     LET a == recv[s][i]
         b == recv[s][j]
     IN (/\ i < j
         /\ IsMessageEvent(a) /\ IsMessageEvent(b)
         /\ messages[a.id].sender = messages[b.id].sender
         /\ messages[a.id].room = messages[b.id].room)
        => messages[a.id].req < messages[b.id].req

\* C39: a session causes events to be delivered to the sessions of room R
\* (message, userTyping, messagesRead) and a message to be persisted in R
\* only if R is the current room of the session's user at that time
C39_OwnRoomOnly ==
  [][LET own == CurrentRoom(sockUser[last'.s]) IN
     /\ (last'.a = "ChatSaveDone" /\ last'.ok) => messages'[Len(messages')].room = own
     /\ (last'.a = "Typing" /\ recv' # recv) => last'.room = own
     /\ (last'.a = "MarkReadDone" /\ recv' # recv) => last'.op.room = own]_vars

(***************************************************************************)
(* Claims about cache failures                                             *)
(***************************************************************************)
IsFailure(e) == e.ev \in {"error", "joinRoomError", "connect_error"}

\* the events socket s receives in this step
NewEvents(s) == {recv'[s][i] : i \in (Len(recv[s]) + 1)..Len(recv'[s])}

\* C28: a command the cache fails during session authentication, the access
\* check, a history load or the rate-limit check does not fail the operation,
\* which goes on as after a cache miss; the rate limiter then counts in the
\* in-process registry
C28_CacheBestEffort ==
  [][/\ last'.a = "LoadCacheFail" =>
          /\ recv' = recv
          /\ \E l \in loads : /\ l.stage = "cache" /\ l.s = last'.s
                              /\ [l EXCEPT !.stage = "db"] \in loads'
     /\ last'.a = "LoadSetexFail" =>
          /\ \A s \in Sockets : \A e \in NewEvents(s) : ~IsFailure(e)
          /\ sockSt[last'.s] = "connected" =>
               \E e \in NewEvents(last'.s) :
                  /\ e.ev \in {"previousMessagesLoaded", "joinRoomSuccess"}
                  /\ e.messages = last'.res.messages
     /\ last'.a = "FetchAccessGetFail" =>
          /\ recv' = recv
          /\ \E f \in fetchReqs' : f.s = last'.s /\ f.stage = "room"
     /\ last'.a = "FetchAccessSetexFail" =>
          /\ recv' = Emit(last'.s, [ev |-> "messageLoadStart"])
          /\ nextLoad' = nextLoad + 1
     /\ (last'.a = "AuthFinish" /\ last'.fails # "none") =>
          IF last'.outcome = "ok"
          THEN /\ sockSt'[last'.s] = "connected"
               /\ recv' = recv
               /\ \E i \in 1..Len(connectedUsers') :
                     connectedUsers'[i] = [k |-> sockUser[last'.s], v |-> last'.s]
          ELSE /\ sockSt'[last'.s] = "rejected"
               /\ recv' = Reject(last'.s, "User not found")
     /\ (last'.a = "RateIncrDone" /\ last'.fails) =>
          /\ recv' = recv
          /\ LMGet(rateLimitCache',
                   RateKey(sockUser[last'.s], Minute(last'.at))).count = 1
          /\ \E r \in chatReqs' : r.s = last'.s /\ r.stage = "save"
     /\ (last'.a = "ChatMessage" /\ useMock /\ RateCached(sockUser[last'.s]) = "ok") =>
          /\ rateLimitCache' = RateCachedIncrement(sockUser[last'.s])
          /\ \E r \in chatReqs' : r.s = last'.s /\ r.stage = "save"]_vars

\* the read of a history page that is in the cache has failed
C28_Witness == last.a = "LoadCacheFail" /\ last.cached

\* the read of a cached user record has failed while the user is not found
C28_WitnessAuth == last.a = "AuthFinish" /\ last.fails = "get" /\ last.cached

\* a send is counted in the registry after the counter of the cache has failed
C28_WitnessRate ==
  /\ last.a = "ChatMessage" /\ useMock
  /\ \E i \in 1..Len(rateLimitCache) : rateLimitCache[i].v.count = 2

(***************************************************************************)
(* Claims about the disconnect handler                                     *)
(***************************************************************************)
\* C30: when a session in room r disconnects by the client's disconnect or by
\* a closed transport, the "disconnected" system message of r and the removal
\* of the user from r's participants are started
C30_GracefulLeave ==
  [][(last'.a = "ClientDisconnect" /\ last'.room # NoRoom) =>
       \E j \in leaveJobs' \ leaveJobs :
          j.room = last'.room /\ j.user = sockUser[last'.s]]_vars

\* the registry points at another handle of the user, and it is connected
OtherHandle(s) ==
  /\ Lookup(sockUser[s]) \notin {NoSock, s}
  /\ sockSt[Lookup(sockUser[s])] = "connected"

\* C36: when a handle c of user u disconnects while the registry points at
\* another connected handle c' of u, the user's current-room entry, rate
\* buckets and history-load keys and the participants of the room of c' are
\* left unchanged
C36_OtherHandleUntouched ==
  [][/\ (last'.a = "ClientDisconnect" /\ OtherHandle(last'.s)) =>
          /\ userRooms' = userRooms
          /\ rateLimitCache' = rateLimitCache
          /\ messageQueues' = messageQueues
     /\ (/\ last'.a = "LeaveJobDone"
         /\ OtherHandle(last'.job.s)
         /\ last'.job.room \in sockRooms[Lookup(last'.job.user)]) =>
          participants' = participants]_vars

(***************************************************************************)
(* Claims about the janitor                                                *)
(***************************************************************************)
Entries(m) == {m[i] : i \in 1..Len(m)}

\* the user has a connected socket
Online(u) == \E s \in Sockets : sockSt[s] = "connected" /\ sockUser[s] = u

\* C31: right after a janitor run no streaming session idle for more than
\* 30 min, no rate bucket older than 2 min and no connection entry of a
\* socket that is not connected is left; below the hard memory threshold the
\* run removes nothing else from these registries
C31_JanitorExact ==
  [][last'.a = "Janitor" =>
       /\ \A e \in Entries(streamingSessions') : now - e.v.lastActivity <= STREAM_IDLE_MS
       /\ \A e \in Entries(rateLimitCache') : now - e.v.timestamp <= RATE_ENTRY_MAX_AGE
       /\ \A e \in Entries(connectedUsers') : sockSt[e.v] = "connected"
       /\ \A e \in Entries(streamingSessions) \ Entries(streamingSessions') :
             now - e.v.lastActivity > STREAM_IDLE_MS
       /\ \A e \in Entries(connectedUsers) \ Entries(connectedUsers') :
             sockSt[e.v] # "connected"
       /\ \A e \in Entries(userRooms) \ Entries(userRooms') : ~Online(e.k)
       /\ ~last'.heapCritical =>
            \A e \in Entries(rateLimitCache) \ Entries(rateLimitCache') :
               /\ now - e.v.timestamp > RATE_ENTRY_MAX_AGE
               /\ e.k.minute # Minute(now)]_vars

\* a run below the threshold has removed a stalled streaming session and an
\* old rate bucket and has kept a younger session
C31_Witness ==
  /\ last.a = "Janitor" /\ ~last.heapCritical
  /\ last.idle = 1 /\ last.aged = 1
  /\ Len(streamingSessions) = 1

(***************************************************************************)
(* Claims about the AI jobs of a message                                   *)
(***************************************************************************)
Tags(mentions) == {AiType(mentions[i]) : i \in 1..Len(mentions)}

MentionOf(ai) == CHOOSE w \in MentionTokens : AiType(w) = ai

\* C34: a sent message spawns exactly one AI streaming job per distinct
\* model tag mentioned in its content and none when it mentions none; a job
\* starts only after the message is persisted and fanned out, and its query
\* is the content without that model's mention
C34_OneJobPerTag ==
  [][LET new == aiJobs' \ aiJobs IN
     /\ last'.a \in {"ChatMessage", "RateIncrDone"} => new = {}
     /\ last'.a = "ChatSaveDone" /\ ~last'.ok => new = {}
     /\ last'.a = "ChatSaveDone" /\ last'.ok =>
          LET m == messages'[Len(messages')]
              log == roomLog'[m.room]
          IN /\ Len(messages') = Len(messages) + 1
             /\ log[Len(roomLog[m.room]) + 1] = [ev |-> "message", id |-> m.id]
             /\ {j.aiType : j \in new} = Tags(last'.mentions)
             /\ Cardinality(new) = Cardinality(Tags(last'.mentions))
             /\ \A j \in new : j.room = m.room /\ j.query = Query(m.content, MentionOf(j.aiType))]_vars

\* C38: two streaming sessions never share an id, so the fullContent of
\* every aiMessageChunk is the in-order concatenation of the chunks of the
\* one job the chunk belongs to
C38_SidUnique ==
  /\ \A j1, j2 \in aiJobs : j1.id # j2.id => j1.sid # j2.sid
  /\ \A r \in Rooms : \A i \in 1..Len(roomLog[r]) :
        LET e == roomLog[r][i] IN
        e.ev = "aiMessageChunk" =>
           e.fullContent = [n \in 1..e.chunk.n |-> [job |-> e.chunk.job, n |-> n]]

(***************************************************************************)
(* Claims about force_login                                                *)
(***************************************************************************)
ForceEnded == [ev |-> "session_ended", reason |-> "force_logout"]

ForceError == [ev |-> "error", message |-> "session end failed"]

\* C35: force_login ends only the session that sent it, and only when the
\* token verifies to that session's user: the session receives session_ended
\* with reason force_logout and is closed; with another user's token or an
\* invalid one nobody receives session_ended, nobody is closed and the
\* requester receives an error
C35_ForceOwnSessionOnly ==
  [][last'.a = "ForceLogin" =>
       LET s == last'.s IN
       /\ \A x \in Sockets \ {s} : sockSt'[x] = sockSt[x] /\ recv'[x] = recv[x]
       /\ IF last'.tokenUser = sockUser[s]
          THEN /\ recv'[s] = Append(recv[s], ForceEnded)
               /\ sockSt'[s] = "closed"
          ELSE /\ recv'[s] = Append(recv[s], ForceError)
               /\ sockSt'[s] = sockSt[s]]_vars

\* u1 has ended its own session after u2 was refused with u1's token
C35_Witness ==
  /\ last.a = "ForceLogin" /\ last.s = 1 /\ last.tokenUser = "u1"
  /\ sockSt[1] = "closed" /\ sockSt[2] = "connected"
  /\ \E i \in 1..Len(recv[2]) : recv[2][i] = ForceError
  /\ recv[1][Len(recv[1])] = ForceEnded

(***************************************************************************)
(* Claims about failed session opens and repeated pre-emption              *)
(***************************************************************************)
\* C21: a session open that fails authentication causes no duplicate_login,
\* no session_ended and no disconnect on an existing session of its user: no
\* pre-emption was ever started by a socket that is rejected
C21_NoPreemptionByRejected ==
  \A p \in dupLog : sockSt[p.newSock] # "rejected"

\* C22: no session receives more than one session_ended; once the incumbent
\* is closed no pre-emption timer is pending for it and no new session still
\* waits for it; an incumbent that left by itself is sent no session_ended
C22_EndedOnce ==
  \A s \in Sockets :
     /\ Count(recv[s], IsDupEnded) <= 1
     /\ sockSt[s] = "closed" =>
          /\ \A t \in dupTimers : t.existing # s
          /\ \A p \in dupLog : p.existing = s => sockSt[p.newSock] # "dupwait"
          /\ closeInfo[s].reason \in ClientReasons => Count(recv[s], IsDupEnded) = 0

\* two new sessions waited for socket 1, which left before the timers expired;
\* the second of them has been registered at once
C22_Witness ==
  /\ \E p, q \in dupLog : p.existing = 1 /\ q.existing = 1 /\ p.newSock # q.newSock
  /\ sockSt[1] = "closed" /\ closeInfo[1].reason \in ClientReasons
  /\ closeInfo[1].at < DUPLICATE_LOGIN_TIMEOUT
  /\ last.a = "AuthFinish" /\ last.s = 3 /\ sockSt[3] = "connected"
  /\ now = closeInfo[1].at

\* two new sessions waited for socket 1 until the first timer expired: it was
\* ended once
C22_WitnessTimer ==
  /\ \E p, q \in dupLog : p.existing = 1 /\ q.existing = 1 /\ p.newSock # q.newSock
  /\ Preempted(1)
  /\ Count(recv[1], IsDupEnded) = 1

====
